---- MODULE Spec2Model ----
(***************************************************************************)
(* Model of the audio alignment and render pipeline of                     *)
(* remix-renaissance-forge: src/api/align.py (key selection),              *)
(* src/api/audio_ops.py (piecewise time alignment), src/api/transitions.py *)
(* (section crossfade) and src/supabase/functions/generate-mashup/index.py *)
(* (render_mashup, and the file run as a program), with the job queue of   *)
(* src/supabase/functions/process-job-queue/index.py, the event stream of  *)
(* src/audio_processing_service/main.py and the mashup job of              *)
(* src/api/main.py (generate_mashup_endpoint, run_mashup_process).         *)
(*                                                                         *)
(* al is a call of stretch_to_grid_piecewise, ks the calls of              *)
(* choose_target_key in two processes, rn a call of render_mashup, jb a    *)
(* mashup job (a run of generate-mashup/index.py as a program, or a        *)
(* request to src/api/main.py and its thread), fn a call of one of the     *)
(* pure functions semitone_distance, plan_shifts and the normalization of  *)
(* render_mashup, pq the mashup_jobs                                       *)
(* table with two invocations of process_job_queue, and sm a run of        *)
(* render_mashup_streamer.                                                 *)
(*                                                                         *)
(* Sample buffers (numpy arrays of shape [T, C]) are modelled along their  *)
(* time axis as run-length encoded sequences of runs.  A run stands for    *)
(* `len` consecutive samples, starting at offset `off`, of the array its   *)
(* other fields describe: a wav file, the output of one rubberband call,   *)
(* zero padding, or the result of an elementwise numpy expression over     *)
(* operand buffers.  Slicing and concatenation are computed on runs the    *)
(* way numpy computes them on samples.                                     *)
(*                                                                         *)
(* Times are integers in milliseconds.  int(t * sr) is computed exactly;   *)
(* the beat times and tempi the model draws are ones for which Python's    *)
(* float arithmetic gives the same integers.                               *)
(***************************************************************************)
EXTENDS Integers, Sequences, FiniteSets, TLC

VARIABLES al, ks, rn, jb, fn, pq, sm

vars == <<al, ks, rn, jb, fn, pq, sm>>

Max(a, b) == IF a >= b THEN a ELSE b
Min(a, b) == IF a <= b THEN a ELSE b

\* int(num / den) of Python: truncation toward zero.
IntDiv(num, den) == IF num >= 0 THEN num \div den ELSE -((-num) \div den)

\* int(t * sr) for a time of t_ms milliseconds.
ToSamples(t_ms, sr) == IntDiv(t_ms * sr, 1000)

(***************************************************************************)
(* Buffers.                                                                *)
(***************************************************************************)
RECURSIVE BufLen(_)
BufLen(b) == IF b = <<>> THEN 0 ELSE Head(b).len + BufLen(Tail(b))

\* b[:k] for k >= 0.
RECURSIVE Take(_, _)
Take(b, k) ==
    IF k <= 0 \/ b = <<>> THEN <<>>
    ELSE IF Head(b).len <= k
         THEN <<Head(b)>> \o Take(Tail(b), k - Head(b).len)
         ELSE <<[Head(b) EXCEPT !.len = k]>>

\* b[k:] for k >= 0.  Every sample of a zero run is the same sample, so a
\* zero run keeps offset 0.
RECURSIVE Drop(_, _)
Drop(b, k) ==
    IF k <= 0 \/ b = <<>> THEN b
    ELSE IF Head(b).len <= k
         THEN Drop(Tail(b), k - Head(b).len)
         ELSE <<[Head(b) EXCEPT !.off = IF Head(b).kind = "zero" THEN 0 ELSE @ + k,
                                !.len = @ - k]>> \o Tail(b)

\* b[lo:hi] for 0 <= lo, 0 <= hi.
PySlice(b, lo, hi) == Take(Drop(b, lo), hi - lo)

\* b[-n:] for n >= 0 (b[-0:] is b[0:], the whole array).
PyTail(b, n) == IF n = 0 THEN b ELSE Drop(b, Max(BufLen(b) - n, 0))

SameArray(r, s) == [r EXCEPT !.off = 0, !.len = 0] = [s EXCEPT !.off = 0, !.len = 0]

\* np.concatenate([a, b], axis=0); adjacent runs that continue one another
\* are written as one run.
Concat(a, b) ==
    IF a = <<>> THEN b
    ELSE IF b = <<>> THEN a
    ELSE LET x == a[Len(a)]
             y == Head(b)
         IN IF SameArray(x, y) /\ (x.kind = "zero" \/ x.off + x.len = y.off)
            THEN SubSeq(a, 1, Len(a) - 1) \o <<[x EXCEPT !.len = @ + y.len]>> \o Tail(b)
            ELSE a \o b

\* np.zeros((k, C)).
Zeros(k) == IF k <= 0 THEN <<>> ELSE <<[kind |-> "zero", off |-> 0, len |-> k]>>

\* A wav file of n samples, as load_wav returns it.
Wav(id, n) == IF n <= 0 THEN <<>> ELSE <<[kind |-> "wav", id |-> id, off |-> 0, len |-> n]>>

\* Length of the first axis of an elementwise numpy operation on arrays of
\* lengths x and y (broadcasting); -1 when numpy raises ValueError.
Broadcast(x, y) ==
    IF x = -1 \/ y = -1 THEN -1
    ELSE IF x = y THEN x
    ELSE IF x = 1 THEN y
    ELSE IF y = 1 THEN x
    ELSE -1

\* The array an elementwise expression `op` over operands a and b yields.
Elementwise(op, a, b, n) ==
    IF n <= 0 THEN <<>>
    ELSE <<[kind |-> op, a |-> a, b |-> b, off |-> 0, len |-> n]>>

Ok(buf) == [ok |-> TRUE, buf |-> buf, err |-> "none"]
Raise(e) == [ok |-> FALSE, buf |-> <<>>, err |-> e]

(***************************************************************************)
(* align.py.  A key name is the sequence of its characters: "C#m" is       *)
(* <<"C", "#", "m">>.                                                      *)
(***************************************************************************)
KEYS == << <<"C">>, <<"C", "#">>, <<"D">>, <<"D", "#">>, <<"E">>, <<"F">>,
           <<"F", "#">>, <<"G">>, <<"G", "#">>, <<"A">>, <<"A", "#">>, <<"B">> >>

\* The 24 keys: 12 pitch classes, major and minor.
AllKeys == {KEYS[i] : i \in 1..Len(KEYS)} \cup {Append(KEYS[i], "m") : i \in 1..Len(KEYS)}

Abs(x) == IF x < 0 THEN -x ELSE x

\* k.replace("m", "")
StripM(k) == SelectSeq(k, LAMBDA c : c # "m")

\* k.endswith("m")
EndsWithM(k) == k # <<>> /\ k[Len(k)] = "m"

\* idx(k) = KEYS.index(k.replace("m", "")), 0-based; the keys the model draws
\* are all in KEYS.
idx(k) == (CHOOSE i \in 1..Len(KEYS) :
             /\ KEYS[i] = StripM(k)
             /\ \A j \in 1..(i - 1) : KEYS[j] # StripM(k)) - 1

\* A plausible slip: always the upward distance.
semitone_distance_up(src, dst) == (idx(dst) - idx(src)) % 12

\* A plausible slip: a minor key measured from its relative major, 3
\* semitones up.
semitone_distance_relative(src, dst) ==
    LET s == idx(src) + (IF EndsWithM(src) THEN 3 ELSE 0)
        d == idx(dst) + (IF EndsWithM(dst) THEN 3 ELSE 0)
        up == (d - s) % 12
        down == -((s - d) % 12)
    IN IF Abs(up) <= Abs(down) THEN up ELSE down

\* A plausible slip: ties between up and down resolved downward.
semitone_distance_strict(src, dst) ==
    LET s == idx(src)
        d == idx(dst)
        up == (d - s) % 12
        down == -((s - d) % 12)
    IN IF Abs(up) < Abs(down) THEN up ELSE down

\* A plausible slip: the smaller magnitude returned without its sign.
semitone_distance_magnitude(src, dst) ==
    LET s == idx(src)
        d == idx(dst)
        up == (d - s) % 12
        down == -((s - d) % 12)
    IN IF Abs(up) <= Abs(down) THEN Abs(up) ELSE Abs(down)

\* A plausible slip: the index of one argument counted from 1.
semitone_distance_from_one(src, dst) ==
    LET s == idx(src)
        d == idx(dst) + 1
        up == (d - s) % 12
        down == -((s - d) % 12)
    IN IF Abs(up) <= Abs(down) THEN up ELSE down

semitone_distance(src, dst) ==
    LET s == idx(src)
        d == idx(dst)
        up == (d - s) % 12
        down == -((s - d) % 12)
    IN IF Abs(up) <= Abs(down) THEN up ELSE down

\* A plausible slip: the abs() around the distance forgotten.
RECURSIVE CandCostSigned(_, _)
CandCostSigned(keys, cand) ==
    IF keys = <<>> THEN 0
    ELSE semitone_distance(Head(keys), cand)
         + (IF EndsWithM(Head(keys)) # EndsWithM(cand) THEN 1 ELSE 0)
         + CandCostSigned(Tail(keys), cand)

\* Lines 31-36: the cost the inner loop accumulates for one candidate.
RECURSIVE CandCost(_, _)
CandCost(keys, cand) ==
    IF keys = <<>> THEN 0
    ELSE Abs(semitone_distance(Head(keys), cand))
         + (IF EndsWithM(Head(keys)) # EndsWithM(cand) THEN 1 ELSE 0)
         + CandCost(Tail(keys), cand)

BestCostInit == 1000000000

\* Lines 29-38: the loop over cands, in the order the set yields them.
RECURSIVE ChooseLoop(_, _, _, _)
ChooseLoop(keys, order, best, best_cost) ==
    IF order = <<>> THEN best
    ELSE LET cost == CandCost(keys, Head(order))
         IN IF cost < best_cost
            THEN ChooseLoop(keys, Tail(order), Head(order), cost)
            ELSE ChooseLoop(keys, Tail(order), best, best_cost)

Range(q) == {q[i] : i \in 1..Len(q)}

\* The orders in which iterating set(keys) can yield its elements: the order
\* of a Python set of strings follows the strings' hashes, which are salted
\* per process.
SetOrders(S) ==
    {o \in [1..Cardinality(S) -> S] : \A i, j \in 1..Cardinality(S) : o[i] = o[j] => i = j}

\* A plausible slip: every major key a candidate, not only the input's keys.
choose_target_key_all_keys(keys, order) ==
    IF keys = <<>> THEN <<"C">> ELSE ChooseLoop(keys, KEYS, <<>>, BestCostInit)

\* A plausible slip: no default for an empty input, best left as None.
choose_target_key_no_default(keys, order) ==
    ChooseLoop(keys, order, <<>>, BestCostInit)

\* A plausible slip: the chosen key returned without its mode.
choose_target_key_no_mode(keys, order) ==
    IF keys = <<>> THEN <<"C">> ELSE StripM(ChooseLoop(keys, order, <<>>, BestCostInit))

\* choose_target_key(keys), with the iteration order of set(keys) given.
choose_target_key(keys, order) ==
    IF keys = <<>> THEN <<"C">> ELSE ChooseLoop(keys, order, <<>>, BestCostInit)

\* plan_shifts(per_track_keys, target_key): the shifts and the two limits.
VocalShiftLimit == 3
MusicShiftLimit == 6

\* A plausible slip: the shifts clamped to the vocal limit by plan_shifts.
plan_shifts_clamped(per_track_keys, target_key) ==
    [shifts |-> [t \in DOMAIN per_track_keys |->
                    Max(Min(semitone_distance(per_track_keys[t], target_key),
                            VocalShiftLimit), -VocalShiftLimit)],
     vocal_limit |-> VocalShiftLimit,
     music_limit |-> MusicShiftLimit]

plan_shifts(per_track_keys, target_key) ==
    [shifts |-> [t \in DOMAIN per_track_keys |->
                    semitone_distance(per_track_keys[t], target_key)],
     vocal_limit |-> VocalShiftLimit,
     music_limit |-> MusicShiftLimit]

(***************************************************************************)
(* audio_ops.py                                                            *)
(***************************************************************************)
XfadeMs == 12
MinChunk == 32

\* _xfade(a, b, sr, ms)
xfade(a, b, sr, ms) ==
    LET n == IntDiv(sr * ms, 1000)
        a_tail == PyTail(a, n)
        b_head == Take(b, n)
        \* w has n rows; cross = (1 - w) * a_tail + w * b_head
        rows == Broadcast(Broadcast(n, BufLen(a_tail)), Broadcast(n, BufLen(b_head)))
    IN IF n <= 0 THEN Ok(Concat(a, b))
       ELSE IF rows = -1 THEN Raise("ValueError")
       ELSE Ok(Concat(Concat(Take(a, Max(BufLen(a) - n, 0)), Elementwise("xfade", a_tail, b_head, rows)),
                      Drop(b, n)))

\* time_stretch_uniform(chunk, sr, rate): rubberband's output for the chunk,
\* `got` samples long.
time_stretch_uniform(chunk, got) ==
    IF got <= 0 THEN <<>>
    ELSE <<[kind |-> "stretch", a |-> chunk, off |-> 0, len |-> got]>>

\* Line 57: the length of rubberband's output in iteration i (0-based), given
\* its deviation `d` from len(chunk) / rate.
RubberbandLen(sr, tgt_beats, i, d) ==
    Max(Max(ToSamples(tgt_beats[i + 2] - tgt_beats[i + 1], sr), 1) + d, 0)

\* A plausible slip: a long slice trimmed, a short one not padded.
StretchedSliceTrimOnly(y, sr, src_beats, tgt_beats, i, d) ==
    LET tgt_len == ToSamples(tgt_beats[i + 2] - tgt_beats[i + 1], sr)
        chunk == PySlice(y, ToSamples(src_beats[i + 1], sr), ToSamples(src_beats[i + 2], sr))
        got == Max(Max(tgt_len, 1) + d, 0)
        stretched == time_stretch_uniform(chunk, got)
    IN IF got > tgt_len THEN Take(stretched, tgt_len) ELSE stretched

\* Lines 52-63: the padded or trimmed slice of iteration i (0-based), given
\* the deviation `d` of rubberband's output length from len(chunk) / rate.
StretchedSlice(y, sr, src_beats, tgt_beats, i, d) ==
    LET s0 == src_beats[i + 1]
        s1 == src_beats[i + 2]
        t0 == tgt_beats[i + 1]
        t1 == tgt_beats[i + 2]
        tgt_len == ToSamples(t1 - t0, sr)
        chunk == PySlice(y, ToSamples(s0, sr), ToSamples(s1, sr))
        got == Max(Max(tgt_len, 1) + d, 0)
        stretched == time_stretch_uniform(chunk, got)
    IN IF got > tgt_len THEN Take(stretched, tgt_len)
       ELSE IF got < tgt_len THEN Concat(stretched, Zeros(tgt_len - got))
       ELSE stretched

\* len(chunk) < 32: continue
SliceDropped(y, sr, src_beats, i) ==
    BufLen(PySlice(y, ToSamples(src_beats[i + 1], sr), ToSamples(src_beats[i + 2], sr))) < MinChunk

\* Lines 64-69: what one kept slice does to segs.
JoinSlice(segs, stretched, sr) ==
    IF segs # <<>>
    THEN LET x == xfade(segs[Len(segs)], stretched, sr, XfadeMs)
         IN IF x.ok
            THEN [ok |-> TRUE, segs |-> Append([segs EXCEPT ![Len(segs)] = x.buf], stretched)]
            ELSE [ok |-> FALSE, segs |-> segs]
    ELSE [ok |-> TRUE, segs |-> <<stretched>>]

\* Lines 70-74: out = segs[0]; for j in range(1, len(segs), 2): out = out ++ segs[j]
RECURSIVE MergeFrom(_, _, _)
MergeFrom(out, segs, j) ==
    IF j >= Len(segs) THEN out
    ELSE MergeFrom(Concat(out, segs[j + 1]), segs, j + 2)

MergeSegs(segs) ==
    IF segs = <<>> THEN Raise("IndexError") ELSE Ok(MergeFrom(segs[1], segs, 1))

\* range(min(len(src_beats)-1, len(tgt_beats)-1))
NumIntervals(src_beats, tgt_beats) == Max(Min(Len(src_beats) - 1, Len(tgt_beats) - 1), 0)

\* assert len(src_beats) >= 2 and len(tgt_beats) >= 2
BeatsAsserted(src_beats, tgt_beats) == Len(src_beats) >= 2 /\ Len(tgt_beats) >= 2

\* Lines 49-69 from iteration i on; dev[i + 1] is the deviation of rubberband's
\* output length in iteration i.
RECURSIVE AlignLoop(_, _, _, _, _, _, _)
AlignLoop(y, sr, src_beats, tgt_beats, i, segs, dev) ==
    IF i >= NumIntervals(src_beats, tgt_beats) THEN [ok |-> TRUE, segs |-> segs]
    ELSE IF SliceDropped(y, sr, src_beats, i)
         THEN AlignLoop(y, sr, src_beats, tgt_beats, i + 1, segs, dev)
         ELSE LET j == JoinSlice(segs,
                                 StretchedSlice(y, sr, src_beats, tgt_beats, i, dev[i + 1]),
                                 sr)
              IN IF j.ok
                 THEN AlignLoop(y, sr, src_beats, tgt_beats, i + 1, j.segs, dev)
                 ELSE j

\* stretch_to_grid_piecewise(y, sr, src_beats, tgt_beats) as one call.
stretch_to_grid_piecewise(y, sr, src_beats, tgt_beats, dev) ==
    IF ~BeatsAsserted(src_beats, tgt_beats) THEN Raise("AssertionError")
    ELSE LET l == AlignLoop(y, sr, src_beats, tgt_beats, 0, <<>>, dev)
         IN IF l.ok THEN MergeSegs(l.segs) ELSE Raise("ValueError")

(***************************************************************************)
(* transitions.py                                                          *)
(***************************************************************************)
\* sec = 60.0 / bpm * 4 * bars; n = int(sec * sr)
FadeWindow(sr, bars, bpm) == IntDiv(60 * 4 * bars * sr, bpm)

\* s_curve_xfade(a, b, sr, bars, bpm)
s_curve_xfade(a, b, sr, bars, bpm) ==
    LET n == FadeWindow(sr, bars, bpm)
        a2 == IF BufLen(a) > n THEN PyTail(a, n) ELSE a
        b2 == IF BufLen(b) > n THEN Take(b, n) ELSE b
        \* t and w have len(b2) rows; out = (1 - w) * a2 + w * b2
        rows == Broadcast(Broadcast(BufLen(b2), BufLen(a2)), BufLen(b2))
        out == Elementwise("s_curve", a2, b2, rows)
    IN IF rows = -1 THEN Raise("ValueError")
       ELSE IF BufLen(b2) > n THEN Ok(Concat(out, Drop(b2, n)))
       ELSE Ok(out)

(***************************************************************************)
(* generate-mashup/index.py: render_mashup                                 *)
(***************************************************************************)
STEMS == <<"vocals", "drums", "bass", "other">>

\* apply_gain_db(y, db) = y * 10 ** (db / 20)
apply_gain_db(y, db) ==
    IF y = <<>> THEN <<>>
    ELSE <<[kind |-> "gain", a |-> y, db |-> db, off |-> 0, len |-> BufLen(y)]>>

\* pitch_shift_semitones(y, sr, semitones): rubberband's output, as long as y.
pitch_shift_semitones(y, semitones) ==
    IF y = <<>> THEN <<>>
    ELSE <<[kind |-> "pitch", a |-> y, semitones |-> semitones, off |-> 0, len |-> BufLen(y)]>>

\* master * (0.98 / peak)
ScaleToPeak(master) ==
    IF master = <<>> THEN <<>>
    ELSE <<[kind |-> "normalized", a |-> master, off |-> 0, len |-> BufLen(master)]>>

\* sorted(bpms)[len(bpms) // 2]
SortedAt(bpms, k) ==
    CHOOSE v \in Range(bpms) :
        /\ Cardinality({i \in 1..Len(bpms) : bpms[i] < v}) <= k
        /\ Cardinality({i \in 1..Len(bpms) : bpms[i] <= v}) > k

\* max(tracks_meta, key=len(beats_sec)): the first track with the most beats.
RefTrack(tracks) ==
    CHOOSE i \in 1..Len(tracks) :
        /\ \A j \in 1..Len(tracks) : Len(tracks[j].beats) <= Len(tracks[i].beats)
        /\ \A j \in 1..(i - 1) : Len(tracks[j].beats) < Len(tracks[i].beats)

\* A plausible slip: the music limit used for every stem.
ClampShiftMusicLimit(shift, stem_name, vocal_limit, music_limit) ==
    Max(Min(shift, music_limit), -music_limit)

\* A plausible slip: the vocal limit used for every stem.
ClampShiftVocalLimit(shift, stem_name, vocal_limit, music_limit) ==
    Max(Min(shift, vocal_limit), -vocal_limit)

\* shift = max(min(shift, lim), -lim)
ClampShift(shift, stem_name, vocal_limit, music_limit) ==
    LET lim == IF stem_name = "vocals" THEN vocal_limit ELSE music_limit
    IN Max(Min(shift, lim), -lim)

\* A plausible slip: the stem pitch-shifted first and time-aligned after.
PrepStemPitchFirst(track, stem_name, target_beats, shift, vocal_limit, music_limit, dev) ==
    LET y == Wav(<<track.id, stem_name>>, track.wav_len)
        sh == ClampShift(shift, stem_name, vocal_limit, music_limit)
    IN stretch_to_grid_piecewise(IF sh # 0 THEN pitch_shift_semitones(y, sh) ELSE y,
                                 track.sr, track.beats, target_beats, dev)

\* Lines 58-65: one stem of one track, loaded, aligned and pitch-shifted.
PrepStem(track, stem_name, target_beats, shift, vocal_limit, music_limit, dev) ==
    LET y == Wav(<<track.id, stem_name>>, track.wav_len)
        r == stretch_to_grid_piecewise(y, track.sr, track.beats, target_beats, dev)
        sh == ClampShift(shift, stem_name, vocal_limit, music_limit)
    IN IF ~r.ok THEN r
       ELSE IF sh # 0 THEN Ok(pitch_shift_semitones(r.buf, sh))
       ELSE r

NoMix == [none |-> TRUE, buf |-> <<>>]
SomeMix(b) == [none |-> FALSE, buf |-> b]

\* Lines 71-77: the layers of one section mixed in order; mix starts as None.
RECURSIVE MixLayers(_, _, _)
MixLayers(layers, prepped, mix) ==
    IF layers = <<>> THEN [ok |-> TRUE, mix |-> mix]
    ELSE LET layer == Head(layers)
             key == <<layer.track_id, layer.stem>>
         IN IF key \notin DOMAIN prepped THEN [ok |-> FALSE, mix |-> mix]
            ELSE LET y0 == prepped[key]
                     y == IF layer.has_gain THEN apply_gain_db(y0, layer.gain_db) ELSE y0
                     m == IF mix.none THEN y
                          ELSE LET l == Take(mix.buf, BufLen(y))
                                   r == Take(y, BufLen(mix.buf))
                               IN Elementwise("add", l, r, BufLen(l))
                 IN MixLayers(Tail(layers), prepped, SomeMix(m))

\* A plausible slip: the section's xfade_bars used for every transition style.
XfadeBarsAnyStyle(sec) == IF sec.has_xfade_bars THEN sec.xfade_bars ELSE 2

\* Lines 82-86: the bars of the crossfade that joins a section to the master.
XfadeBars(sec) ==
    LET style == IF sec.has_transition THEN sec.transition ELSE "clean_cross"
    IN IF style = "clean_cross"
       THEN (IF sec.has_xfade_bars THEN sec.xfade_bars ELSE 2)
       ELSE 2

\* 10.0 ** (db / 20.0) is 0.0 for a whole db of at most -6473 (it is 5e-324
\* for -6472), so every sample of the product is 0.0.
GainUnderflowDb == -6473

\* The rows of operand a that the run r of an elementwise result was
\* computed from; an operand of one row was broadcast.
Operand(a, r) == IF BufLen(a) = 1 THEN a ELSE PySlice(a, r.off, r.off + r.len)

\* Every sample of b is 0.0.  silent_wavs tells whether the wav files hold
\* digital silence; otherwise their samples are such that no sum or product
\* the render computes from them is 0.0, unless a factor is.  rubberband
\* returns silence for silence.
RECURSIVE Silent(_, _)
Silent(b, silent_wavs) ==
    \A i \in 1..Len(b) :
        LET r == b[i]
        IN CASE r.kind = "zero" -> TRUE
             [] r.kind = "wav" -> silent_wavs
             [] r.kind \in {"stretch", "pitch"} -> Silent(r.a, silent_wavs)
             [] r.kind = "gain" ->
                    r.db <= GainUnderflowDb \/ Silent(Operand(r.a, r), silent_wavs)
             [] r.kind = "normalized" -> Silent(Operand(r.a, r), silent_wavs)
             [] OTHER -> /\ Silent(Operand(r.a, r), silent_wavs)
                         /\ Silent(Operand(r.b, r), silent_wavs)

\* peak = np.max(np.abs(master)); peak > 0
PeakPositive(master, silent_wavs) == ~Silent(master, silent_wavs)


(***************************************************************************)
(* float64 sample values, for the normalization of render_mashup (lines    *)
(* 88-91), which RenderFinalize applies to runs and Normalize below to     *)
(* samples.  A natural number is a sequence of limbs, least significant    *)
(* first, without leading zero limbs.  A float is zero, infinite, nan, or  *)
(* finite: (-1)^neg * m * 2^e with m odd.  Arithmetic rounds to nearest,   *)
(* ties to even, to 53 bits, with gradual underflow and overflow to inf,   *)
(* as IEEE 754 binary64 does.                                              *)
(***************************************************************************)
LimbBits == 12
LimbBase == 4096

RECURSIVE BigTrim(_)
BigTrim(a) ==
    IF a = <<>> THEN <<>>
    ELSE IF a[Len(a)] = 0 THEN BigTrim(SubSeq(a, 1, Len(a) - 1))
    ELSE a

RECURSIVE BigMulCarry(_, _, _)
BigMulCarry(a, k, carry) ==
    IF a = <<>>
    THEN (IF carry = 0 THEN <<>> ELSE <<carry % LimbBase>> \o BigMulCarry(<<>>, k, carry \div LimbBase))
    ELSE LET v == Head(a) * k + carry
         IN <<v % LimbBase>> \o BigMulCarry(Tail(a), k, v \div LimbBase)

\* a * k for 0 <= k < LimbBase
BigMulSmall(a, k) == BigTrim(BigMulCarry(a, k, 0))

\* Quotient (untrimmed) and remainder of a by k, 0 < k < LimbBase.
RECURSIVE BigDivSmall(_, _)
BigDivSmall(a, k) ==
    IF a = <<>> THEN [q |-> <<>>, r |-> 0]
    ELSE LET hi == BigDivSmall(Tail(a), k)
             v == hi.r * LimbBase + Head(a)
         IN [q |-> <<v \div k>> \o hi.q, r |-> v % k]

RECURSIVE SmallBitLen(_)
SmallBitLen(v) == IF v = 0 THEN 0 ELSE 1 + SmallBitLen(v \div 2)

BitLen(a) == IF a = <<>> THEN 0 ELSE LimbBits * (Len(a) - 1) + SmallBitLen(a[Len(a)])

\* a * 2^n
BigShl(a, n) ==
    BigMulSmall([i \in 1..(n \div LimbBits) |-> 0] \o a, 2 ^ (n % LimbBits))

\* floor(a / 2^n), and whether a bit was shifted out.
BigShr(a, n) ==
    LET w == n \div LimbBits
    IN IF w >= Len(a) THEN [q |-> <<>>, sticky |-> a # <<>>]
       ELSE LET d == BigDivSmall(SubSeq(a, w + 1, Len(a)), 2 ^ (n % LimbBits))
            IN [q |-> BigTrim(d.q),
                sticky |-> d.r # 0 \/ \E i \in 1..w : a[i] # 0]

BigIsOdd(a) == a # <<>> /\ a[1] % 2 = 1

BigLess(a, b) ==
    IF Len(a) # Len(b) THEN Len(a) < Len(b)
    ELSE \E i \in 1..Len(a) :
            /\ a[i] < b[i]
            /\ \A j \in (i + 1)..Len(a) : a[j] = b[j]

FZero == [kind |-> "zero", neg |-> FALSE, m |-> <<>>, e |-> 0]
FInf(neg) == [kind |-> "inf", neg |-> neg, m |-> <<>>, e |-> 0]

\* The finite float (-1)^neg * m * 2^e, m made odd.
RECURSIVE Fin(_, _, _)
Fin(neg, m, e) ==
    IF m = <<>> THEN FZero
    ELSE IF BigIsOdd(m) THEN [kind |-> "fin", neg |-> neg, m |-> m, e |-> e]
    ELSE Fin(neg, BigShr(m, 1).q, e + 1)

MantissaBits == 53
MinExp == -1074
MaxTop == 1024

\* The float64 nearest to (-1)^neg * (n + f) * 2^e, where 0 <= f < 1 and
\* sticky tells whether f > 0.
Round64(neg, n, e, sticky) ==
    LET drop == Max(BitLen(n) - MantissaBits, MinExp - e)
    IN IF drop <= 0
       THEN (IF BitLen(n) + e > MaxTop THEN FInf(neg) ELSE Fin(neg, n, e))
       ELSE LET s1 == BigShr(n, drop - 1)
                q == BigShr(s1.q, 1).q
                up == BigIsOdd(s1.q) /\ (s1.sticky \/ sticky \/ BigIsOdd(q))
                q2 == IF up THEN BigTrim(BigMulCarry(q, 1, 1)) ELSE q
            IN IF BitLen(q2) + e + drop > MaxTop THEN FInf(neg)
               ELSE Fin(neg, q2, e + drop)

\* 0.98 = 0x1.f5c28f5c28f5cp-1 = 0x7d70a3d70a3d7 * 2^-51
F098 == [kind |-> "fin", neg |-> FALSE, m |-> <<983, 1802, 2621, 3440, 7>>, e |-> -51]

\* a / b for finite nonzero a and b, the mantissa of b below LimbBase (the
\* samples and the step counts the model draws).  The quotient is taken to
\* more than MantissaBits + 1 bits before it is rounded.
FDiv(a, b) ==
    LET d == BigDivSmall(BigShl(a.m, 6 * LimbBits), b.m[1])
    IN Round64(a.neg # b.neg, BigTrim(d.q), a.e - 6 * LimbBits - b.e, d.r # 0)

\* x * y for a sample x (zero, or finite with mantissa below LimbBase) and a
\* scale y (zero, finite or infinite).
FMul(x, y) ==
    IF x.kind = "zero" THEN (IF y.kind = "inf" THEN [kind |-> "nan", neg |-> FALSE, m |-> <<>>, e |-> 0] ELSE FZero)
    ELSE IF y.kind = "inf" THEN FInf(x.neg # y.neg)
    ELSE IF y.kind = "zero" THEN FZero
    ELSE Round64(x.neg # y.neg, BigMulSmall(y.m, x.m[1]), x.e + y.e, FALSE)

FAbs(x) == [x EXCEPT !.neg = FALSE]

\* x < y for x and y zero, finite or infinite, and not negative.
FLess(x, y) ==
    IF x.kind = "inf" \/ y.kind = "zero" THEN FALSE
    ELSE IF y.kind = "inf" \/ x.kind = "zero" THEN TRUE
    ELSE LET tx == BitLen(x.m) + x.e
             ty == BitLen(y.m) + y.e
         IN IF tx # ty THEN tx < ty
            ELSE IF x.e >= y.e THEN BigLess(BigShl(x.m, x.e - y.e), y.m)
            ELSE BigLess(x.m, BigShl(y.m, y.e - x.e))

\* np.max(np.abs(master)) of a non-empty buffer
RECURSIVE MaxAbs(_)
MaxAbs(master) ==
    IF Len(master) = 1 THEN FAbs(master[1])
    ELSE LET r == MaxAbs(Tail(master))
             h == FAbs(Head(master))
         IN IF FLess(h, r) THEN r ELSE h

\* Lines 88-91 on the samples of master; np.max raises on an empty array.
Normalize(master) ==
    IF master = <<>> THEN Raise("ValueError")
    ELSE LET peak == MaxAbs(master)
         IN IF FLess(FZero, peak)
            THEN Ok([i \in 1..Len(master) |-> FMul(master[i], FDiv(F098, peak))])
            ELSE Ok(master)


(***************************************************************************)
MaxBeats == 4
MaxJitter == 1

ScenarioGrid == <<0, 600, 1200, 1800>>

RECURSIVE GridsOfLen(_)
GridsOfLen(n) ==
    IF n = 0 THEN {<<>>}
    ELSE IF n = 1 THEN {<<0>>}
    ELSE {Append(g, g[Len(g)] + s) : g \in GridsOfLen(n - 1), s \in {125, 500}}

BeatGrids ==
    UNION {GridsOfLen(n) : n \in 0..MaxBeats}
    \cup {SubSeq(ScenarioGrid, 1, n) : n \in 2..Min(MaxBeats, Len(ScenarioGrid))}

Jitter == (-MaxJitter)..MaxJitter

(***************************************************************************)
(* Inputs of the key selection runs.                                       *)
(***************************************************************************)
MaxKeys == 3

KeyPool == { <<"C">>, <<"A", "m">>, <<"A">>, <<"F", "#">>, <<"D", "m">>, <<"G">> }

RECURSIVE KeySeqs(_)
KeySeqs(n) ==
    IF n = 0 THEN {<<>>}
    ELSE KeySeqs(n - 1) \cup {Append(q, k) : q \in {p \in KeySeqs(n - 1) : Len(p) = n - 1}, k \in KeyPool}

(***************************************************************************)
(* Inputs of the plan_shifts calls: a key for each of up to two tracks.    *)
(***************************************************************************)

(***************************************************************************)
(* Inputs of the normalization: buffers of a few float64 samples, among    *)
(* them 16-bit PCM values (11 / 2^15) and the smallest subnormal.          *)
(***************************************************************************)
MaxSamples == 2

Sample(neg, k, e) == Fin(neg, <<k>>, e)

SamplePool ==
    { FZero, Sample(FALSE, 1, -1), Sample(TRUE, 3, -2), Sample(FALSE, 11, -4),
      Sample(TRUE, 11, -15), Sample(TRUE, 1, 0), Sample(FALSE, 1, MinExp) }

RECURSIVE SampleBufs(_)
SampleBufs(n) ==
    IF n = 0 THEN {<<>>}
    ELSE SampleBufs(n - 1)
         \cup {Append(q, x) : q \in {b \in SampleBufs(n - 1) : Len(b) = n - 1}, x \in SamplePool}

(***************************************************************************)
(* Inputs of render_mashup: the analysis and stems of each track in         *)
(* tracks_meta, and the plan.                                              *)
(***************************************************************************)
MaxSections == 2

\* Analysis and stems of a song: key, bpm, beat grid, and the stems' length
\* in samples and sample rate.
TrackPool ==
    { [key |-> <<"C">>, bpm |-> 240, beats |-> <<0, 500, 1000, 1500>>, wav_len |-> 375, sr |-> 250],
      [key |-> <<"A", "m">>, bpm |-> 120, beats |-> <<0, 500, 1000>>, wav_len |-> 375, sr |-> 250],
      [key |-> <<"G">>, bpm |-> 120, beats |-> <<0, 500, 1000>>, wav_len |-> 375, sr |-> 250],
      [key |-> <<"F", "#">>, bpm |-> 120, beats |-> <<0>>, wav_len |-> 375, sr |-> 250] }

Layer(t, st) == [track_id |-> t, stem |-> st, has_gain |-> FALSE, gain_db |-> 0]
LayerGain(t, st, db) == [track_id |-> t, stem |-> st, has_gain |-> TRUE, gain_db |-> db]

\* Sections of a plan; a field the plan leaves out has has_... = FALSE.
SectionPool ==
    { [duration_ms |-> 1000, layers |-> <<Layer(1, "vocals"), Layer(2, "drums")>>,
       has_transition |-> FALSE, transition |-> "", has_xfade_bars |-> FALSE, xfade_bars |-> 0],
      [duration_ms |-> 1000, layers |-> <<LayerGain(1, "drums", -3)>>,
       has_transition |-> TRUE, transition |-> "clean_cross", has_xfade_bars |-> TRUE, xfade_bars |-> 1],
      [duration_ms |-> 1000, layers |-> <<LayerGain(2, "vocals", -8000)>>,
       has_transition |-> TRUE, transition |-> "echo_out", has_xfade_bars |-> TRUE, xfade_bars |-> 1],
      [duration_ms |-> 1000, layers |-> <<>>,
       has_transition |-> FALSE, transition |-> "", has_xfade_bars |-> FALSE, xfade_bars |-> 0],
      [duration_ms |-> 1000, layers |-> <<Layer(3, "vocals")>>,
       has_transition |-> FALSE, transition |-> "", has_xfade_bars |-> FALSE, xfade_bars |-> 0] }

RECURSIVE Plans(_)
Plans(n) ==
    IF n = 0 THEN {<<>>}
    ELSE Plans(n - 1) \cup {Append(q, x) : q \in {p \in Plans(n - 1) : Len(p) = n - 1}, x \in SectionPool}

\* tracks_meta with n tracks; its keys are 1..n in insertion order.
TracksOfLen(n) ==
    {[i \in 1..n |-> [id |-> i, key |-> a[i].key, bpm |-> a[i].bpm, beats |-> a[i].beats,
                      wav_len |-> a[i].wav_len, sr |-> a[i].sr]] : a \in [1..n -> TrackPool]}

RnStart(tracks, plan, d, silent_wavs) ==
    [pc |-> "setup", tracks |-> tracks, plan |-> plan, silent_wavs |-> silent_wavs,
     dev |-> [i \in 1..(MaxBeats + 1) |-> d],
     target_key |-> <<>>, target_bpm |-> 0, target_beats |-> <<>>,
     shifts |-> <<>>, vocal_limit |-> 0, music_limit |-> 0,
     prepped |-> <<>>, k |-> 0, sr |-> 0, sec |-> 1,
     master |-> NoMix, mix |-> NoMix, prev |-> NoMix, joined |-> "none", n |-> 0,
     appended |-> <<>>, finalized |-> 0, err |-> "none"]

\* stretch_to_grid_piecewise entered with its arguments.
AlStart(y, sr, src_beats, tgt_beats) ==
    [pc |-> "assert", y |-> y, sr |-> sr, src_beats |-> src_beats, tgt_beats |-> tgt_beats,
     i |-> 0, segs |-> <<>>, kept |-> <<>>, slices |-> <<>>, out |-> <<>>, err |-> "none"]

\* A mashup job.  prog is the program that runs it: "index.py" for
\* `python3 index.py` started with or without the path of an input file that
\* names the songs, "api" for src/api/main.py.  pc is the position of the
\* program or of the request handler, th the position of the thread that runs
\* run_mashup_process.  status, details and result_url are the columns of the
\* job's row in mashup_jobs ("none": no row, or the column not set), uploads
\* the number of result files stored, k the number of songs fetched,
\* tracks_meta its keys in insertion order, raised_in the step whose call
\* raised.
JbStart(has_arg, songs) ==
    [prog |-> "index.py", pc |-> "start", th |-> "none", has_arg |-> has_arg, songs |-> songs,
     status |-> "none", details |-> "none", result_url |-> "none",
     uploads |-> 0, k |-> 0, tracks_meta |-> <<>>, raised_in |-> "none",
     resp |-> 0, exit_code |-> -1, err |-> "none"]

(***************************************************************************)
(* The state of a component that a specification does not run.             *)
(***************************************************************************)
\* Two interpreter processes, each with its own string hash seed.
Procs == {1, 2}

KsIdle == [keys |-> <<>>, res |-> [p \in Procs |-> [done |-> FALSE]]]
AlIdle == [AlStart(<<>>, 0, <<>>, <<>>) EXCEPT !.pc = "idle"]
RnIdle == [RnStart(<<>>, <<>>, 0, FALSE) EXCEPT !.pc = "idle"]
JbIdle == [JbStart(FALSE, <<>>) EXCEPT !.pc = "idle"]
FnIdle == [pc |-> "idle"]

\* The rows of the mashup_jobs table and the invocations of process_job_queue
\* that run against it.
JobIds == {"j1", "j2"}
Invocations == {1, 2}

\* A row of mashup_jobs; marked, rendered and uploaded count the writes of
\* 'processing', the calls of execute_mashup_plan and the uploads for the job.
PqRow(status) == [status |-> status, marked |-> 0, rendered |-> 0, uploaded |-> 0]

PqStart(statuses) ==
    [rows |-> [j \in JobIds |-> PqRow(statuses[j])],
     inv |-> [w \in Invocations |-> [pc |-> "select", job_id |-> "none", code |-> 0]]]

PqIdle ==
    [rows |-> [j \in JobIds |-> PqRow("complete")],
     inv |-> [w \in Invocations |-> [pc |-> "idle", job_id |-> "none", code |-> 0]]]

StIdle ==
    [pc |-> "idle", n_songs |-> 0, n_sections |-> 0, total_steps |-> 2,
     current_step |-> 0, i |-> 0, j |-> 0, events |-> <<>>,
     mastered |-> FALSE, uploaded |-> FALSE, closed_at |-> "none"]

(***************************************************************************)
(* stretch_to_grid_piecewise, one loop iteration per step.                 *)
(***************************************************************************)
AlignInit ==
    /\ ks = KsIdle
    /\ pq = PqIdle
    /\ sm = StIdle
    /\ rn = RnIdle
    /\ jb = JbIdle
    /\ fn = FnIdle
    /\ \E sr \in {250, 44100}, ms \in {1000, 1500}, s \in BeatGrids, t \in BeatGrids :
         al = AlStart(Wav("y", ToSamples(ms, sr)), sr, s, t)

\* A plausible slip: too few beats answered by handing the audio back.
AlignAssertFallback ==
    /\ UNCHANGED <<ks, rn, jb, fn, pq, sm>>
    /\ al.pc = "assert"
    /\ al' = IF BeatsAsserted(al.src_beats, al.tgt_beats)
             THEN [al EXCEPT !.pc = "loop"]
             ELSE [al EXCEPT !.pc = "returned", !.out = al.y]

AlignAssert ==
    /\ UNCHANGED <<ks, rn, jb, fn, pq, sm>>
    /\ al.pc = "assert"
    /\ al' = IF BeatsAsserted(al.src_beats, al.tgt_beats)
             THEN [al EXCEPT !.pc = "loop"]
             ELSE [al EXCEPT !.pc = "raised", !.err = "AssertionError"]

AlignSkip ==
    /\ UNCHANGED <<ks, rn, jb, fn, pq, sm>>
    /\ al.pc = "loop"
    /\ al.i < NumIntervals(al.src_beats, al.tgt_beats)
    /\ SliceDropped(al.y, al.sr, al.src_beats, al.i)
    /\ al' = [al EXCEPT !.i = @ + 1]

AlignSlice ==
    /\ UNCHANGED <<ks, rn, jb, fn, pq, sm>>
    /\ al.pc = "loop"
    /\ al.i < NumIntervals(al.src_beats, al.tgt_beats)
    /\ ~SliceDropped(al.y, al.sr, al.src_beats, al.i)
    /\ \E d \in Jitter :
         LET stretched == StretchedSlice(al.y, al.sr, al.src_beats, al.tgt_beats, al.i, d)
             j == JoinSlice(al.segs, stretched, al.sr)
         IN al' = IF j.ok
                  THEN [al EXCEPT !.i = @ + 1, !.segs = j.segs,
                                  !.kept = Append(@, al.i),
                                  !.slices = Append(@,
                                      [got |-> RubberbandLen(al.sr, al.tgt_beats, al.i, d),
                                       buf |-> stretched])]
                  ELSE [al EXCEPT !.pc = "raised", !.err = "ValueError"]

AlignMerge ==
    /\ UNCHANGED <<ks, rn, jb, fn, pq, sm>>
    /\ al.pc = "loop"
    /\ al.i >= NumIntervals(al.src_beats, al.tgt_beats)
    /\ LET m == MergeSegs(al.segs)
       IN al' = IF m.ok
                THEN [al EXCEPT !.pc = "returned", !.out = m.buf]
                ELSE [al EXCEPT !.pc = "raised", !.err = m.err]

AlignNext == AlignAssert \/ AlignSkip \/ AlignSlice \/ AlignMerge

SpecAlign == AlignInit /\ [][AlignNext]_vars

(***************************************************************************)
(* choose_target_key, called once in each of two processes on the same    *)
(* input.                                                                  *)
(***************************************************************************)
KeyInit ==
    /\ \E q \in KeySeqs(MaxKeys) \cup {<<k>> : k \in AllKeys} : ks = [keys |-> q, res |-> [p \in Procs |-> [done |-> FALSE]]]
    /\ al = AlIdle
    /\ pq = PqIdle
    /\ sm = StIdle
    /\ rn = RnIdle
    /\ jb = JbIdle
    /\ fn = FnIdle

\* Process p calls choose_target_key(keys).
Choose(p) ==
    /\ ~ks.res[p].done
    /\ \E order \in SetOrders(Range(ks.keys)) :
         ks' = [ks EXCEPT !.res[p] =
                   [done |-> TRUE,
                    best |-> choose_target_key(ks.keys, order),
                    costs |-> [c \in Range(ks.keys) |-> CandCost(ks.keys, c)]]]
    /\ UNCHANGED <<al, rn, jb, fn, pq, sm>>

KeyNext == \E p \in Procs : Choose(p)

SpecKey == KeyInit /\ [][KeyNext]_vars

(***************************************************************************)
(* semitone_distance, called on a pair of keys and then on the reversed    *)
(* pair.                                                                   *)
(***************************************************************************)
DistInit ==
    /\ \E src \in AllKeys, dst \in AllKeys :
         fn = [pc |-> "call", src |-> src, dst |-> dst, out |-> 0, back |-> 0]
    /\ al = AlIdle
    /\ pq = PqIdle
    /\ sm = StIdle
    /\ ks = KsIdle
    /\ rn = RnIdle
    /\ jb = JbIdle

\* semitone_distance(src, dst)
DistForward ==
    /\ fn.pc = "call"
    /\ fn' = [fn EXCEPT !.pc = "back", !.out = semitone_distance(fn.src, fn.dst)]
    /\ UNCHANGED <<al, ks, rn, jb, pq, sm>>

\* semitone_distance(dst, src)
DistBackward ==
    /\ fn.pc = "back"
    /\ fn' = [fn EXCEPT !.pc = "done", !.back = semitone_distance(fn.dst, fn.src)]
    /\ UNCHANGED <<al, ks, rn, jb, pq, sm>>

DistNext == DistForward \/ DistBackward

SpecDist == DistInit /\ [][DistNext]_vars

(***************************************************************************)
(* plan_shifts, called with the default limits.                            *)
(***************************************************************************)
PlanInit ==
    /\ \E per_track_keys \in UNION {[S -> KeyPool] : S \in SUBSET {"t1", "t2"}}, target_key \in KeyPool :
         fn = [pc |-> "call", per_track_keys |-> per_track_keys,
               target_key |-> target_key, out |-> <<>>]
    /\ al = AlIdle
    /\ pq = PqIdle
    /\ sm = StIdle
    /\ ks = KsIdle
    /\ rn = RnIdle
    /\ jb = JbIdle

PlanShifts ==
    /\ fn.pc = "call"
    /\ fn' = [fn EXCEPT !.pc = "done",
                        !.out = plan_shifts(fn.per_track_keys, fn.target_key)]
    /\ UNCHANGED <<al, ks, rn, jb, pq, sm>>

PlanNext == PlanShifts

SpecPlan == PlanInit /\ [][PlanNext]_vars

(***************************************************************************)
(* The normalization of render_mashup on a master buffer of samples.      *)
(***************************************************************************)
FinalInit ==
    /\ \E master \in SampleBufs(MaxSamples) :
         fn = [pc |-> "call", master |-> master, out |-> <<>>, err |-> "none"]
    /\ al = AlIdle
    /\ pq = PqIdle
    /\ sm = StIdle
    /\ ks = KsIdle
    /\ rn = RnIdle
    /\ jb = JbIdle

\* Lines 88-91.
NormalizeMaster ==
    /\ fn.pc = "call"
    /\ LET r == Normalize(fn.master)
       IN fn' = IF r.ok THEN [fn EXCEPT !.pc = "returned", !.out = r.buf]
                ELSE [fn EXCEPT !.pc = "raised", !.err = r.err]
    /\ UNCHANGED <<al, ks, rn, jb, pq, sm>>

FinalNext == NormalizeMaster

SpecFinal == FinalInit /\ [][FinalNext]_vars

(***************************************************************************)
(* render_mashup (lines 41-91, which compile on their own) called with     *)
(* tracks_meta and a plan, one step per prepared stem and per section.     *)
(***************************************************************************)
\* Lines 42-51.
RenderSetup ==
    /\ rn.pc = "setup"
    /\ IF rn.tracks = <<>>
       THEN rn' = [rn EXCEPT !.pc = "raised", !.err = "IndexError"]
       ELSE \E order \in SetOrders({rn.tracks[i].key : i \in 1..Len(rn.tracks)}) :
              LET keys == [i \in 1..Len(rn.tracks) |-> rn.tracks[i].key]
                  target_key == choose_target_key(keys, order)
                  p == plan_shifts(keys, target_key)
              IN rn' = [rn EXCEPT !.pc = "prep",
                                  !.target_key = target_key,
                                  !.target_bpm = SortedAt([i \in 1..Len(rn.tracks) |-> rn.tracks[i].bpm], Len(rn.tracks) \div 2),
                                  !.target_beats = rn.tracks[RefTrack(rn.tracks)].beats,
                                  !.shifts = p.shifts,
                                  !.vocal_limit = p.vocal_limit,
                                  !.music_limit = p.music_limit]
    /\ UNCHANGED <<al, ks, jb, fn, pq, sm>>

\* Lines 54-66: the k-th (track, stem) pair of the two nested loops.
RenderPrepStem ==
    /\ rn.pc = "prep"
    /\ rn.k < Len(rn.tracks) * Len(STEMS)
    /\ LET t == (rn.k \div Len(STEMS)) + 1
           stem_name == STEMS[(rn.k % Len(STEMS)) + 1]
           track == rn.tracks[t]
           r == PrepStem(track, stem_name, rn.target_beats, rn.shifts[t],
                         rn.vocal_limit, rn.music_limit, rn.dev)
       IN rn' = IF r.ok
                THEN [rn EXCEPT !.k = @ + 1,
                                !.prepped = (<<track.id, stem_name>> :> r.buf) @@ @]
                ELSE [rn EXCEPT !.pc = "raised", !.err = r.err]
    /\ UNCHANGED <<al, ks, jb, fn, pq, sm>>

\* Lines 68-69.
RenderPrepDone ==
    /\ rn.pc = "prep"
    /\ rn.k >= Len(rn.tracks) * Len(STEMS)
    /\ rn' = [rn EXCEPT !.pc = "sections", !.sr = rn.tracks[1].sr]
    /\ UNCHANGED <<al, ks, jb, fn, pq, sm>>

\* A plausible slip: the first section faded in from silence instead of
\* being taken as it is.
RenderSectionFadeIn ==
    /\ rn.pc = "sections"
    /\ rn.sec <= Len(rn.plan)
    /\ LET sec == rn.plan[rn.sec]
           m == MixLayers(sec.layers, rn.prepped, NoMix)
       IN IF ~m.ok
          THEN rn' = [rn EXCEPT !.pc = "raised", !.err = "KeyError"]
          ELSE IF rn.master.none
          THEN rn' = [rn EXCEPT !.sec = @ + 1, !.mix = m.mix, !.prev = rn.master,
                                !.master = IF m.mix.none THEN m.mix
                                           ELSE SomeMix(Elementwise("s_curve",
                                                    Zeros(BufLen(m.mix.buf)), m.mix.buf,
                                                    BufLen(m.mix.buf))),
                                !.joined = IF m.mix.none THEN "none" ELSE "first",
                                !.appended = IF m.mix.none THEN @ ELSE Append(@, rn.sec)]
          ELSE IF m.mix.none
          THEN rn' = [rn EXCEPT !.pc = "raised", !.err = "AttributeError"]
          ELSE LET x == s_curve_xfade(rn.master.buf, m.mix.buf, rn.sr,
                                      XfadeBars(sec), rn.target_bpm)
               IN rn' = IF x.ok
                        THEN [rn EXCEPT !.sec = @ + 1, !.mix = m.mix, !.prev = rn.master,
                                        !.master = SomeMix(x.buf), !.joined = "xfade",
                                        !.n = FadeWindow(rn.sr, XfadeBars(sec), rn.target_bpm),
                                        !.appended = Append(@, rn.sec)]
                        ELSE [rn EXCEPT !.pc = "raised", !.err = x.err]
    /\ UNCHANGED <<al, ks, jb, fn, pq, sm>>

\* Lines 70-86: one section mixed and joined to the master.
RenderSection ==
    /\ rn.pc = "sections"
    /\ rn.sec <= Len(rn.plan)
    /\ LET sec == rn.plan[rn.sec]
           m == MixLayers(sec.layers, rn.prepped, NoMix)
       IN IF ~m.ok
          THEN rn' = [rn EXCEPT !.pc = "raised", !.err = "KeyError"]
          ELSE IF rn.master.none
          THEN rn' = [rn EXCEPT !.sec = @ + 1, !.mix = m.mix, !.prev = rn.master,
                                !.master = m.mix,
                                !.joined = IF m.mix.none THEN "none" ELSE "first",
                                !.appended = IF m.mix.none THEN @ ELSE Append(@, rn.sec)]
          ELSE IF m.mix.none
          THEN rn' = [rn EXCEPT !.pc = "raised", !.err = "AttributeError"]
          ELSE LET x == s_curve_xfade(rn.master.buf, m.mix.buf, rn.sr,
                                      XfadeBars(sec), rn.target_bpm)
               IN rn' = IF x.ok
                        THEN [rn EXCEPT !.sec = @ + 1, !.mix = m.mix, !.prev = rn.master,
                                        !.master = SomeMix(x.buf), !.joined = "xfade",
                                        !.n = FadeWindow(rn.sr, XfadeBars(sec), rn.target_bpm),
                                        !.appended = Append(@, rn.sec)]
                        ELSE [rn EXCEPT !.pc = "raised", !.err = x.err]
    /\ UNCHANGED <<al, ks, jb, fn, pq, sm>>

\* Lines 88-91.
RenderFinalize ==
    /\ rn.pc = "sections"
    /\ rn.sec > Len(rn.plan)
    /\ rn' = IF rn.master.none THEN [rn EXCEPT !.pc = "raised", !.err = "TypeError"]
             ELSE IF rn.master.buf = <<>> THEN [rn EXCEPT !.pc = "raised", !.err = "ValueError"]
             ELSE [rn EXCEPT !.pc = "returned", !.finalized = @ + 1,
                             !.master = IF PeakPositive(rn.master.buf, rn.silent_wavs)
                                        THEN SomeMix(ScaleToPeak(rn.master.buf))
                                        ELSE @]
    /\ UNCHANGED <<al, ks, jb, fn, pq, sm>>

\* render_mashup called with up to two tracks, a plan and the deviation of
\* rubberband; the stems are all-zero recordings or audible ones (drawn for
\* the undisturbed beat grid, audible otherwise).
Init ==
    /\ \E n \in 0..2, plan \in Plans(MaxSections), d \in Jitter :
         \E tracks \in TracksOfLen(n), silent_wavs \in (IF d = 0 THEN BOOLEAN ELSE {FALSE}) :
            rn = RnStart(tracks, plan, d, silent_wavs)
    /\ jb = JbIdle
    /\ al = AlIdle
    /\ pq = PqIdle
    /\ sm = StIdle
    /\ ks = KsIdle
    /\ fn = FnIdle

Next ==
    \/ RenderSetup \/ RenderPrepStem \/ RenderPrepDone \/ RenderSection \/ RenderFinalize

Spec == Init /\ [][Next]_vars

(***************************************************************************)
(* The mashup job.                                                         *)
(*                                                                         *)
(* generate-mashup/index.py as a program.  The file does not compile: line *)
(* 130 is indented by 12 columns, which matches neither the body of the    *)
(* try of line 94 (8 columns) nor the body of the loop of line 98 (16), so *)
(* the interpreter raises IndentationError before it executes a statement. *)
(* run_mashup_process (lines 93-158) is never defined and __main__ (lines  *)
(* 160-195) never runs.                                                    *)
(*                                                                         *)
(* src/api/main.py compiles.  generate_mashup_endpoint inserts the job's   *)
(* row and starts a thread that runs run_mashup_process, which returns to  *)
(* the caller while the thread runs.  Every call of the database, the      *)
(* storage or a function may raise; a write may have been applied when its *)
(* call raises (the response is lost).  The rows it inserts have status    *)
(* 'starting', which process_job_queue never selects.                      *)
(***************************************************************************)
MaxJobSongs == 3

RECURSIVE SongLists(_)
SongLists(n) ==
    IF n = 0 THEN {<<>>}
    ELSE SongLists(n - 1)
         \cup {Append(q, x) : q \in {s \in SongLists(n - 1) : Len(s) = n - 1}, x \in {"s1", "s2", "s3"}}

\* tracks_meta[song_id] = ...: a new key is added last, a key already in the
\* dict keeps its place.
PutKey(q, song_id) ==
    IF \E a \in 1..Len(q) : q[a] = song_id THEN q ELSE Append(q, song_id)

\* The interpreter compiles the file: IndentationError, exit code 1, nothing
\* on stdout, no row inserted or updated, nothing stored.
JobLoad ==
    /\ jb.prog = "index.py" /\ jb.pc = "start"
    /\ jb' = [jb EXCEPT !.pc = "exited", !.exit_code = 1, !.err = "IndentationError"]
    /\ UNCHANGED <<al, ks, rn, fn, pq, sm>>

\* src/api/main.py lines 233-246 and 249-251: the songs are checked, the row
\* is inserted with status 'starting' and the thread is started.
generate_mashup_endpoint ==
    /\ jb.prog = "api" /\ jb.pc = "request"
    /\ IF Len(jb.songs) < 2
       THEN jb' = [jb EXCEPT !.pc = "responded", !.resp = 400]
       ELSE \/ jb' = [jb EXCEPT !.pc = "responded", !.resp = 500]
            \/ jb' = [jb EXCEPT !.pc = "responded", !.resp = 500, !.status = "starting"]
            \/ jb' = [jb EXCEPT !.pc = "started", !.status = "starting", !.th = "start"]
    /\ UNCHANGED <<al, ks, rn, fn, pq, sm>>

\* src/api/main.py line 248: the handler returns the job id.
EndpointReturn ==
    /\ jb.prog = "api" /\ jb.pc = "started"
    /\ jb' = [jb EXCEPT !.pc = "responded", !.resp = 200]
    /\ UNCHANGED <<al, ks, rn, fn, pq, sm>>

\* src/api/main.py line 169: the status is set to 'processing'.
JobSetProcessing ==
    /\ jb.prog = "api" /\ jb.th = "start"
    /\ LET done == [jb EXCEPT !.status = "processing", !.details = "Analyzing tracks..."]
       IN \/ jb' = [done EXCEPT !.th = "songs"]
          \/ jb' = [done EXCEPT !.th = "except", !.raised_in = "status"]
          \/ jb' = [jb EXCEPT !.th = "except", !.raised_in = "status"]
    /\ UNCHANGED <<al, ks, rn, fn, pq, sm>>

\* src/api/main.py lines 174-193: one song is downloaded, analysed and
\* separated into stems.
JobFetchSong ==
    /\ jb.prog = "api" /\ jb.th = "songs" /\ jb.k < Len(jb.songs)
    /\ \/ jb' = [jb EXCEPT !.k = @ + 1, !.tracks_meta = PutKey(@, jb.songs[jb.k + 1])]
       \/ jb' = [jb EXCEPT !.th = "except", !.raised_in = "song"]
    /\ UNCHANGED <<al, ks, rn, fn, pq, sm>>

\* src/api/main.py line 195: the details of the row are updated.
JobPlanDetails ==
    /\ jb.prog = "api" /\ jb.th = "songs" /\ jb.k = Len(jb.songs)
    /\ LET done == [jb EXCEPT !.details = "Generating mashup plan..."]
       IN \/ jb' = [done EXCEPT !.th = "director"]
          \/ jb' = [done EXCEPT !.th = "except", !.raised_in = "details"]
          \/ jb' = [jb EXCEPT !.th = "except", !.raised_in = "details"]
    /\ UNCHANGED <<al, ks, rn, fn, pq, sm>>

\* src/api/main.py lines 197-198: the plan is asked of the director.
JobPlan ==
    /\ jb.prog = "api" /\ jb.th = "director"
    /\ \/ jb' = [jb EXCEPT !.th = "complete"]
       \/ jb' = [jb EXCEPT !.th = "except", !.raised_in = "director"]
    /\ UNCHANGED <<al, ks, rn, fn, pq, sm>>

\* src/api/main.py lines 200-209: render_mashup is not called and nothing is
\* stored; mashup_plan.get('timeline', []) is evaluated and the row is set to
\* 'complete' with a placeholder result_url.
JobComplete ==
    /\ jb.prog = "api" /\ jb.th = "complete"
    /\ LET done == [jb EXCEPT !.status = "complete",
                               !.result_url = "path/to/placeholder.mp3",
                               !.details = "Mashup plan generated. Audio rendering is not yet implemented."]
       IN \/ jb' = [done EXCEPT !.th = "returned"]
          \/ jb' = [done EXCEPT !.th = "except", !.raised_in = "complete"]
          \/ jb' = [jb EXCEPT !.th = "except", !.raised_in = "complete"]
          \/ jb' = [jb EXCEPT !.th = "except", !.raised_in = "timeline"]
    /\ UNCHANGED <<al, ks, rn, fn, pq, sm>>

\* src/api/main.py lines 211-214: the handler sets the status to 'failed';
\* an exception of its own ends the thread.
JobExcept ==
    /\ jb.prog = "api" /\ jb.th = "except"
    /\ \/ jb' = [jb EXCEPT !.status = "failed", !.th = "returned"]
       \/ jb' = [jb EXCEPT !.status = "failed", !.th = "died"]
       \/ jb' = [jb EXCEPT !.th = "died"]
    /\ UNCHANGED <<al, ks, rn, fn, pq, sm>>

\* A run of index.py; a POST /generate-mashup received by src/api/main.py
\* with the songs of its body; or run_mashup_process(job_id, songs) of
\* src/api/main.py called on a row of status 'starting'.
JobInit ==
    /\ \E songs \in SongLists(MaxJobSongs) :
          \/ \E has_arg \in BOOLEAN : jb = JbStart(has_arg, songs)
          \/ jb = [JbStart(TRUE, songs) EXCEPT !.prog = "api", !.pc = "request"]
          \/ jb = [JbStart(TRUE, songs) EXCEPT !.prog = "api", !.pc = "none",
                                               !.th = "start", !.status = "starting"]
    /\ al = AlIdle
    /\ pq = PqIdle
    /\ sm = StIdle
    /\ ks = KsIdle
    /\ rn = RnIdle
    /\ fn = FnIdle

JobNext ==
    \/ JobLoad
    \/ generate_mashup_endpoint \/ EndpointReturn
    \/ JobSetProcessing \/ JobFetchSong \/ JobPlanDetails \/ JobPlan \/ JobComplete
    \/ JobExcept

SpecJob == JobInit /\ [][JobNext]_vars

(***************************************************************************)
(* process-job-queue/index.py: process_job_queue, two invocations against  *)
(* one mashup_jobs table.  Every call of the database, the storage or a    *)
(* function returns or raises; a write that raises may have taken effect   *)
(* before (the response was lost).                                         *)
(***************************************************************************)
PqRaise(w) == pq' = [pq EXCEPT !.inv[w].pc = "except"]

\* Lines 79-86: the select of one queued row.  No order is asked for, so any
\* queued row may be the one returned.  The select raises with job_id
\* unbound; job['job_data']['songs'] of line 86 raises with job_id bound.
PqSelect(w) ==
    /\ pq.inv[w].pc = "select"
    /\ LET queued == {j \in JobIds : pq.rows[j].status = "queued"}
       IN \/ /\ queued = {}
             /\ pq' = [pq EXCEPT !.inv[w].pc = "returned", !.inv[w].code = 200]
          \/ \E j \in queued :
                \/ pq' = [pq EXCEPT !.inv[w].pc = "mark", !.inv[w].job_id = j]
                \/ pq' = [pq EXCEPT !.inv[w].pc = "except", !.inv[w].job_id = j]
          \/ PqRaise(w)
    /\ UNCHANGED <<al, ks, rn, jb, fn, sm>>

\* Line 89: the update is keyed by the id alone.
PqMark(w) ==
    /\ pq.inv[w].pc = "mark"
    /\ LET j == pq.inv[w].job_id
       IN \/ pq' = [pq EXCEPT !.inv[w].pc = "run",
                              !.rows[j].status = "processing",
                              !.rows[j].marked = @ + 1]
          \/ pq' = [pq EXCEPT !.inv[w].pc = "except",
                              !.rows[j].status = "processing",
                              !.rows[j].marked = @ + 1]
          \/ PqRaise(w)
    /\ UNCHANGED <<al, ks, rn, jb, fn, sm>>

\* Lines 92-94: stems, plan and execute_mashup_plan.
PqRun(w) ==
    /\ pq.inv[w].pc = "run"
    /\ LET j == pq.inv[w].job_id
       IN \/ pq' = [pq EXCEPT !.inv[w].pc = "upload", !.rows[j].rendered = @ + 1]
          \/ pq' = [pq EXCEPT !.inv[w].pc = "except", !.rows[j].rendered = @ + 1]
          \/ PqRaise(w)
    /\ UNCHANGED <<al, ks, rn, jb, fn, sm>>

\* Lines 97-100: the upload (an upsert) and the public url.
PqUpload(w) ==
    /\ pq.inv[w].pc = "upload"
    /\ LET j == pq.inv[w].job_id
       IN \/ pq' = [pq EXCEPT !.inv[w].pc = "complete", !.rows[j].uploaded = @ + 1]
          \/ pq' = [pq EXCEPT !.inv[w].pc = "except", !.rows[j].uploaded = @ + 1]
          \/ PqRaise(w)
    /\ UNCHANGED <<al, ks, rn, jb, fn, sm>>

\* Lines 103-110.
PqComplete(w) ==
    /\ pq.inv[w].pc = "complete"
    /\ LET j == pq.inv[w].job_id
       IN \/ pq' = [pq EXCEPT !.inv[w].pc = "returned", !.inv[w].code = 200,
                              !.rows[j].status = "complete"]
          \/ pq' = [pq EXCEPT !.inv[w].pc = "except", !.rows[j].status = "complete"]
          \/ PqRaise(w)
    /\ UNCHANGED <<al, ks, rn, jb, fn, sm>>

\* Lines 112-122: the handler marks the job failed when job_id was bound; its
\* own update may raise, and the framework then answers 500.
PqExcept(w) ==
    /\ pq.inv[w].pc = "except"
    /\ LET j == pq.inv[w].job_id
       IN IF j = "none"
          THEN pq' = [pq EXCEPT !.inv[w].pc = "returned", !.inv[w].code = 500]
          ELSE \/ pq' = [pq EXCEPT !.inv[w].pc = "returned", !.inv[w].code = 500,
                                   !.rows[j].status = "failed"]
               \/ pq' = [pq EXCEPT !.inv[w].pc = "crashed", !.inv[w].code = 500,
                                   !.rows[j].status = "failed"]
               \/ pq' = [pq EXCEPT !.inv[w].pc = "crashed", !.inv[w].code = 500]
    /\ UNCHANGED <<al, ks, rn, jb, fn, sm>>

QueueInit ==
    /\ \E statuses \in [JobIds -> {"queued", "processing", "complete", "failed"}] : pq = PqStart(statuses)
    /\ al = AlIdle
    /\ ks = KsIdle
    /\ rn = RnIdle
    /\ jb = JbIdle
    /\ fn = FnIdle
    /\ sm = StIdle

QueueNext ==
    \E w \in Invocations :
        \/ PqSelect(w) \/ PqMark(w) \/ PqRun(w)
        \/ PqUpload(w) \/ PqComplete(w) \/ PqExcept(w)

SpecQueue == QueueInit /\ [][QueueNext]_vars

(***************************************************************************)
(* audio_processing_service/main.py: render_mashup_streamer, an            *)
(* asynchronous generator.  It is suspended where it yields an event       *)
(* (lines 76, 92, 126, 130, 142 and 148), with the event in the hands of   *)
(* its consumer and the work that follows not begun, and where it awaits   *)
(* asyncio.sleep (lines 87 and 123).  One step is the stretch from one     *)
(* suspension to the next.  The consumer may close a suspended generator   *)
(* instead of resuming it: GeneratorExit at a yield and CancelledError at  *)
(* a sleep are no Exception, so the handler of line 144 does not run.      *)
(***************************************************************************)
MaxSongs == 3
MaxTimeline == 3

RECURSIVE BigToNat(_)
BigToNat(a) == IF a = <<>> THEN 0 ELSE Head(a) + LimbBase * BigToNat(Tail(a))

\* int(x) for a float x that is zero or finite and positive.
FInt(x) ==
    IF x.kind = "zero" THEN 0
    ELSE IF x.e >= 0 THEN BigToNat(BigShl(x.m, x.e))
    ELSE BigToNat(BigShr(x.m, -x.e).q)

\* A plausible slip: the two final steps not all counted.
TotalStepsNoFinal(n_songs, n_sections) == n_songs + n_sections + 1

\* Line 62.
TotalSteps(n_songs, n_sections) == n_songs + n_sections + 2

\* Line 68: int((current_step / total_steps) * 100), in float64.
Progress(current_step, total_steps) ==
    FInt(FMul(Sample(FALSE, 100, 0),
              FDiv(Sample(FALSE, current_step, 0), Sample(FALSE, total_steps, 0))))

\* Lines 65-69: progress_update with step_increment 1, and the event yielded.
ProgressUpdate(s, message) ==
    [s EXCEPT !.current_step = @ + 1,
              !.events = Append(@, [kind |-> "progress", message |-> message,
                                    progress |-> Progress(s.current_step + 1, s.total_steps)])]

StStart(n_songs, n_sections) ==
    [pc |-> "created", n_songs |-> n_songs, n_sections |-> n_sections,
     total_steps |-> TotalSteps(n_songs, n_sections),
     current_step |-> 0, i |-> 0, j |-> 0, events |-> <<>>,
     mastered |-> FALSE, uploaded |-> FALSE, closed_at |-> "none"]

\* Lines 90-92 and 126: the next section's event is yielded
\* (section.get('description', '') may raise, which leads to the handler),
\* the mastering event after the last section.
StToSection(s) ==
    IF s.j < s.n_sections
    THEN {[ProgressUpdate(s, "Rendering section") EXCEPT !.pc = "yield_section"], [s EXCEPT !.pc = "except"]}
    ELSE {[ProgressUpdate(s, "Applying mastering effects") EXCEPT !.pc = "yield_master"]}

\* Lines 74-76 and 89: the next song's event is yielded (song['song_id'] may
\* raise), the first section's after the last song.
StToSong(s) ==
    IF s.i < s.n_songs
    THEN {[ProgressUpdate(s, "Separating stems") EXCEPT !.pc = "yield_song"], [s EXCEPT !.pc = "except"]}
    ELSE StToSection(s)

\* Lines 60-76: the first __anext__() runs the generator to its first yield.
StEnter ==
    /\ sm.pc = "created"
    /\ sm' \in StToSong(sm)
    /\ UNCHANGED <<al, ks, rn, jb, fn, pq>>

\* Lines 79-87: resumed after a song's event, the generator asks for the
\* signed url and the stems, stores them and sleeps.
StSong ==
    /\ sm.pc = "yield_song"
    /\ \/ sm' = [sm EXCEPT !.pc = "sleep_song", !.i = @ + 1]
       \/ sm' = [sm EXCEPT !.pc = "except"]
    /\ UNCHANGED <<al, ks, rn, jb, fn, pq>>

\* Line 87 returns, then lines 74-76.
StSongSlept ==
    /\ sm.pc = "sleep_song"
    /\ sm' \in StToSong(sm)
    /\ UNCHANGED <<al, ks, rn, jb, fn, pq>>

\* Lines 94-123: resumed after a section's event, the generator mixes the
\* section's layers, joins the section to the master track and sleeps.
StSection ==
    /\ sm.pc = "yield_section"
    /\ \/ sm' = [sm EXCEPT !.pc = "sleep_section", !.j = @ + 1]
       \/ sm' = [sm EXCEPT !.pc = "except"]
    /\ UNCHANGED <<al, ks, rn, jb, fn, pq>>

\* Line 123 returns, then lines 91-92.
StSectionSlept ==
    /\ sm.pc = "sleep_section"
    /\ sm' \in StToSection(sm)
    /\ UNCHANGED <<al, ks, rn, jb, fn, pq>>

\* Lines 127-130: resumed after the mastering event, the generator calls
\* apply_replay_gain and yields the upload event.
StMaster ==
    /\ sm.pc = "yield_master"
    /\ \/ sm' = [ProgressUpdate(sm, "Uploading final mashup")
                    EXCEPT !.pc = "yield_upload", !.mastered = TRUE]
       \/ sm' = [sm EXCEPT !.pc = "except"]
    /\ UNCHANGED <<al, ks, rn, jb, fn, pq>>

\* Lines 131-142: resumed after the upload event, the generator writes the
\* file, uploads it, unlinks it and yields 'Complete!'.
StUpload ==
    /\ sm.pc = "yield_upload"
    /\ \/ sm' = [sm EXCEPT !.pc = "yield_complete", !.uploaded = TRUE,
                            !.events = Append(@, [kind |-> "complete", message |-> "Complete!",
                                                  progress |-> 100])]
       \/ sm' = [sm EXCEPT !.pc = "except", !.uploaded = TRUE]
       \/ sm' = [sm EXCEPT !.pc = "except"]
    /\ UNCHANGED <<al, ks, rn, jb, fn, pq>>

\* Lines 144-148: the handler yields the error event.
StExcept ==
    /\ sm.pc = "except"
    /\ sm' = [sm EXCEPT !.pc = "yield_error", !.events = Append(@, [kind |-> "error"])]
    /\ UNCHANGED <<al, ks, rn, jb, fn, pq>>

\* Resumed after line 142 or line 148, the generator returns
\* (StopAsyncIteration).
StFinish ==
    /\ sm.pc \in {"yield_complete", "yield_error"}
    /\ sm' = [sm EXCEPT !.pc = "exhausted"]
    /\ UNCHANGED <<al, ks, rn, jb, fn, pq>>

\* The consumer closes the generator where it is suspended (a client that
\* disconnects): nothing more runs inside the try, no event is yielded.
\* closed_at keeps the suspension at which it was closed.
StClose ==
    /\ sm.pc \in {"created", "yield_song", "sleep_song", "yield_section", "sleep_section",
                  "yield_master", "yield_upload", "yield_complete", "yield_error"}
    /\ sm' = [sm EXCEPT !.pc = "closed", !.closed_at = sm.pc]
    /\ UNCHANGED <<al, ks, rn, jb, fn, pq>>

StreamInit ==
    /\ \E n_songs \in 0..MaxSongs, n_sections \in 0..MaxTimeline :
         sm = StStart(n_songs, n_sections)
    /\ al = AlIdle
    /\ ks = KsIdle
    /\ rn = RnIdle
    /\ jb = JbIdle
    /\ fn = FnIdle
    /\ pq = PqIdle

StreamNext ==
    \/ StEnter \/ StSong \/ StSongSlept \/ StSection \/ StSectionSlept
    \/ StMaster \/ StUpload \/ StExcept \/ StFinish \/ StClose

SpecStream == StreamInit /\ [][StreamNext]_vars

(***************************************************************************)
(* Properties.                                                             *)
(***************************************************************************)
RECURSIVE SumTargetLens(_, _, _)
SumTargetLens(tgt_beats, sr, k) ==
    IF k <= 0 THEN 0
    ELSE SumTargetLens(tgt_beats, sr, k - 1) + ToSamples(tgt_beats[k + 1] - tgt_beats[k], sr)

StrictlyIncreasing(q) == \A i \in 1..(Len(q) - 1) : q[i] < q[i + 1]

\* C1: for strictly increasing beat sequences of at least 2 entries each, the
\* buffer stretch_to_grid_piecewise returns is exactly as long as the sum of
\* the target interval lengths int((tgt[i+1]-tgt[i])*sr), i up to
\* min(len(src), len(tgt)) - 2.
C1_LengthIsSumOfTargets ==
    (/\ al.pc = "returned"
     /\ StrictlyIncreasing(al.src_beats) /\ StrictlyIncreasing(al.tgt_beats))
    => BufLen(al.out) = SumTargetLens(al.tgt_beats, al.sr,
                                      NumIntervals(al.src_beats, al.tgt_beats))

\* C2: when master and next are both longer than the fade window n, the
\* append returns master[0 .. len-n), then the n-sample blend of master's tail
\* with next's head, then next[n ..): len(master) + len(next) - n samples.
C2_AppendPassesThrough ==
    (/\ rn.pc = "sections" /\ rn.joined = "xfade"
     /\ BufLen(rn.prev.buf) > rn.n /\ BufLen(rn.mix.buf) > rn.n)
    => /\ rn.master.buf =
            Concat(Concat(Take(rn.prev.buf, BufLen(rn.prev.buf) - rn.n),
                          Elementwise("s_curve", PyTail(rn.prev.buf, rn.n),
                                      Take(rn.mix.buf, rn.n), rn.n)),
                   Drop(rn.mix.buf, rn.n))
       /\ BufLen(rn.master.buf) = BufLen(rn.prev.buf) + BufLen(rn.mix.buf) - rn.n

\* C3: the buffer mixed for a section is as long as the section's declared
\* duration in samples, whatever the lengths of its layers' stems.
C3_SectionLengthIsDeclared ==
    (rn.pc = "sections" /\ rn.joined # "none")
    => BufLen(rn.mix.buf) = ToSamples(rn.plan[rn.sec - 1].duration_ms, rn.sr)

\* C4: when render_mashup returns, every section of the plan has been
\* appended to the master exactly once, in timeline order, and the
\* normalization pass has run exactly once.
C4_EverySectionAppendedOnce ==
    rn.pc = "returned"
    => /\ rn.appended = [i \in 1..Len(rn.plan) |-> i]
       /\ rn.finalized = 1

\* C6: with fewer than 2 entries in either beat sequence,
\* stretch_to_grid_piecewise raises (AssertionError) and returns no buffer.
C6_TooFewBeatsRaise ==
    (/\ al.pc \notin {"idle", "assert"}
     /\ (Len(al.src_beats) < 2 \/ Len(al.tgt_beats) < 2))
    => (al.pc = "raised" /\ al.err = "AssertionError" /\ al.out = <<>>)

\* C6 witness: a call with a valid source grid and a one-beat target grid has
\* raised.
C6_Witness ==
    /\ al.pc = "raised" /\ Len(al.src_beats) >= 2 /\ Len(al.tgt_beats) = 1
    /\ BufLen(al.y) > 0

\* C7: on an identity grid (source beats = target beats, two or more beats)
\* with audio spanning exactly the first to the last beat, the returned
\* buffer's length differs from the input's by at most one crossfade window
\* int(sr*12/1000).
C7_IdentityGridKeepsLength ==
    (/\ al.pc = "returned"
     /\ al.src_beats = al.tgt_beats /\ Len(al.src_beats) >= 2
     /\ al.src_beats[1] = 0
     /\ BufLen(al.y) = ToSamples(al.src_beats[Len(al.src_beats)], al.sr))
    => Abs(BufLen(al.out) - BufLen(al.y)) <= IntDiv(al.sr * XfadeMs, 1000)

\* C8: two calls of choose_target_key with the same input sequence, in the
\* same or in different processes, return the same key.
C8_SameInputSameKey ==
    (ks.res[1].done /\ ks.res[2].done) => ks.res[1].best = ks.res[2].best

\* The cost of candidate c as the specification defines it: the sum over all
\* input keys k of |semitone_distance(k, c)| + (1 if the modes differ).
ModePenalty(k, c) == IF (k[Len(k)] = "m") = (c[Len(c)] = "m") THEN 0 ELSE 1

RECURSIVE SumOver(_, _, _)
SumOver(keys, c, i) ==
    IF i = 0 THEN 0
    ELSE SumOver(keys, c, i - 1) + ModePenalty(keys[i], c)
         + (IF semitone_distance(keys[i], c) < 0
            THEN 0 - semitone_distance(keys[i], c)
            ELSE semitone_distance(keys[i], c))

SpecCost(keys, c) == SumOver(keys, c, Len(keys))

\* C9: for a non-empty input, choose_target_key returns one of the distinct
\* input keys, and its cost is minimal among the distinct input keys.
C9_ChosenKeyHasMinimalCost ==
    \A p \in Procs :
        (ks.res[p].done /\ ks.keys # <<>>)
        => /\ ks.res[p].best \in Range(ks.keys)
           /\ \A c \in Range(ks.keys) :
                SpecCost(ks.keys, ks.res[p].best) <= SpecCost(ks.keys, c)

\* C9 witness: a call has returned on an input whose candidates differ in cost.
C9_Witness ==
    /\ ks.res[1].done /\ Len(ks.keys) >= 2
    /\ \E c \in Range(ks.keys) : SpecCost(ks.keys, c) > SpecCost(ks.keys, ks.res[1].best)

KeyC == <<"C">>
KeyAm == <<"A", "m">>

\* C10 as claimed: for the input [C major, A minor], choose_target_key
\* evaluates cost(C major) = 1 and cost(A minor) = 1.
C10_RelativeKeysCostOne ==
    \A p \in Procs :
        (ks.keys = <<KeyC, KeyAm>> /\ ks.res[p].done)
        => (ks.res[p].costs[KeyC] = 1 /\ ks.res[p].costs[KeyAm] = 1)

\* C10 as amended: for the input [C major, A minor], choose_target_key
\* evaluates cost(C major) = 4 and cost(A minor) = 4 (the pitch classes C and
\* A are 3 semitones apart, and the mode penalty adds 1); the two candidates
\* tie.
C10_RelativeKeysCostFour ==
    \A p \in Procs :
        (ks.keys = <<KeyC, KeyAm>> /\ ks.res[p].done)
        => /\ ks.res[p].costs[KeyC] = 4
           /\ ks.res[p].costs[KeyAm] = 4
           /\ ks.res[p].costs[KeyC] = ks.res[p].costs[KeyAm]

\* C10 witness: both processes have evaluated the input [C major, A minor].
C10_Witness ==
    ks.keys = <<KeyC, KeyAm>> /\ ks.res[1].done /\ ks.res[2].done

\* The pitch class of a key: the place of its note name in the chromatic
\* scale from C, the mode letter set aside.
PitchClass(k) ==
    LET note == IF k[Len(k)] = "m" THEN SubSeq(k, 1, Len(k) - 1) ELSE k
    IN CHOOSE i \in 0..11 : KEYS[i + 1] = note

\* The pitch classes of a and b are exactly 6 semitones apart.
TritoneApart(a, b) == (PitchClass(b) - PitchClass(a)) % 12 = 6

\* C11: for all keys src and dst (12 pitch classes, both modes),
\* semitone_distance(src, dst) is an integer in [-6, 6], congruent to
\* pc(dst) - pc(src) modulo 12, of the smallest absolute value among such
\* integers; when the pitch classes are exactly 6 apart it is +6, never -6.
C11_DistanceIsNearestResidue ==
    fn.pc \in {"back", "done"}
    => /\ fn.out \in (-6)..6
       /\ (fn.out - (PitchClass(fn.dst) - PitchClass(fn.src))) % 12 = 0
       /\ \A n \in (-12)..12 :
            (n - (PitchClass(fn.dst) - PitchClass(fn.src))) % 12 = 0
            => (IF fn.out < 0 THEN -fn.out ELSE fn.out) <= (IF n < 0 THEN -n ELSE n)
       /\ TritoneApart(fn.src, fn.dst) => fn.out = 6

\* C11 witness: the distance from C major to F# minor, 6 apart, has been
\* computed as +6.
C11_Witness ==
    /\ fn.pc = "back" /\ fn.src = <<"C">> /\ fn.dst = <<"F", "#", "m">>
    /\ fn.out = 6

\* C12: for keys a and b whose pitch classes are not exactly 6 apart,
\* semitone_distance(a, b) = -semitone_distance(b, a); when they are exactly
\* 6 apart, both calls return the same fixed tie-break value (+6).
C12_AntisymmetricButForTritone ==
    fn.pc = "done"
    => IF TritoneApart(fn.src, fn.dst)
       THEN fn.out = fn.back /\ fn.out = 6
       ELSE fn.out = -fn.back

\* C12 witness: both directions computed for keys 5 apart, giving +5 and -5.
C12_Witness ==
    /\ fn.pc = "done" /\ ~TritoneApart(fn.src, fn.dst)
    /\ fn.out = 5 /\ fn.back = -5

\* The semitones by which a prepared stem was pitch-shifted: 0 when
\* pitch_shift_semitones was not called on it.
AppliedShift(buf) ==
    IF buf # <<>> /\ buf[1].kind = "pitch" THEN buf[1].semitones ELSE 0

\* C13: for every track and every stem role, the shift applied in
\* render_mashup is the planned shift of the track clamped to [-limit, limit],
\* limit being 3 for vocals and 6 for any other stem: its magnitude never
\* exceeds the limit, and a planned shift within the limit is applied
\* unchanged.
C13_AppliedShiftIsClamped ==
    \A key \in DOMAIN rn.prepped :
        LET planned == rn.shifts[key[1]]
            limit == IF key[2] = "vocals" THEN 3 ELSE 6
            applied == AppliedShift(rn.prepped[key])
        IN /\ applied >= -limit /\ applied <= limit
           /\ (planned >= -limit /\ planned <= limit) => applied = planned
           /\ planned > limit => applied = limit
           /\ planned < -limit => applied = -limit

\* C13 witness: a track's planned shift is +6; its vocals were shifted by +3
\* and its drums by +6.
C13_Witness ==
    \E t \in 1..Len(rn.tracks) :
        /\ {<<t, "vocals">>, <<t, "drums">>} \subseteq DOMAIN rn.prepped
        /\ rn.shifts[t] = 6
        /\ AppliedShift(rn.prepped[<<t, "vocals">>]) = 3
        /\ AppliedShift(rn.prepped[<<t, "drums">>]) = 6

\* The shift from key a to key b as the specification defines it: the
\* pitch class difference modulo 12, taken downward when above 6.
NearestShift(a, b) ==
    LET r == (PitchClass(b) - PitchClass(a)) % 12
    IN IF r <= 6 THEN r ELSE r - 12

KeyDm == <<"D", "m">>

\* C14: plan_shifts returns a mapping with exactly the track ids of its
\* input, each track's shift being semitone_distance(trackKey, target),
\* unclamped, together with the limits 3 (vocal) and 6 (music) when no limits
\* are passed; for {"t1": "Dm"} with target "C" the planned shift is -2.
C14_PlanIsUnclampedDistance ==
    fn.pc = "done"
    => /\ DOMAIN fn.out.shifts = DOMAIN fn.per_track_keys
       /\ \A t \in DOMAIN fn.per_track_keys :
            fn.out.shifts[t] = NearestShift(fn.per_track_keys[t], fn.target_key)
       /\ fn.out.vocal_limit = 3 /\ fn.out.music_limit = 6
       /\ (DOMAIN fn.per_track_keys = {"t1"} /\ fn.per_track_keys["t1"] = KeyDm
           /\ fn.target_key = KeyC)
          => fn.out.shifts["t1"] = -2

\* C14 witness: plan_shifts has returned for {"t1": "Dm"} and target "C".
C14_Witness ==
    /\ fn.pc = "done" /\ DOMAIN fn.per_track_keys = {"t1"}
    /\ fn.per_track_keys["t1"] = KeyDm /\ fn.target_key = KeyC
    /\ fn.out.shifts["t1"] = -2

\* C15: choose_target_key never returns a key absent from its input: for
\* every non-empty input sequence the result is an element of the sequence.
C15_ChosenKeyIsInInput ==
    \A p \in Procs :
        (ks.res[p].done /\ Len(ks.keys) > 0)
        => \E i \in 1..Len(ks.keys) : ks.keys[i] = ks.res[p].best

\* C15 witness: a call has returned the second of three distinct input keys.
C15_Witness ==
    /\ Len(ks.keys) = 3 /\ Cardinality(Range(ks.keys)) = 3
    /\ ks.res[2].done /\ ks.res[2].best = ks.keys[2]

\* C16: on an empty input choose_target_key returns the default key C major
\* ("C") instead of failing.
C16_EmptyInputGivesC ==
    \A p \in Procs :
        (ks.res[p].done /\ Len(ks.keys) = 0) => ks.res[p].best = <<"C">>

\* C16 witness: both processes have called choose_target_key([]) and got "C".
C16_Witness ==
    /\ ks.keys = <<>> /\ ks.res[1].done /\ ks.res[2].done
    /\ ks.res[1].best = KeyC /\ ks.res[2].best = KeyC

\* C19: choose_target_key applied to an input whose only key is k returns k,
\* for every key k.
C19_SingleKeyIsReturned ==
    \A p \in Procs :
        (/\ ks.res[p].done /\ Len(ks.keys) > 0
         /\ \A i \in 1..Len(ks.keys) : ks.keys[i] = ks.keys[1])
        => ks.res[p].best = ks.keys[1]

\* C19 witness: choose_target_key(["G#m"]) has returned "G#m".
C19_Witness ==
    /\ ks.keys = << <<"G", "#", "m">> >> /\ ks.res[1].done
    /\ ks.res[1].best = <<"G", "#", "m">>

\* C20: semitone_distance(k, k) = 0 for every key k (all 12 pitch classes,
\* major and minor).
C20_DistanceToSelfIsZero ==
    (fn.pc \in {"back", "done"} /\ fn.src = fn.dst) => fn.out = 0

\* C20 witness: semitone_distance("A#m", "A#m") has returned 0.
C20_Witness ==
    /\ fn.pc = "back" /\ fn.src = <<"A", "#", "m">> /\ fn.dst = <<"A", "#", "m">>
    /\ fn.out = 0

\* The peak of a buffer of samples is 0: every sample is zero.
AllSilent(master) == \A i \in 1..Len(master) : master[i].kind = "zero"

\* |x| <= 0.98 for a sample x
WithinPeakTarget(x) ==
    \/ x.kind = "zero"
    \/ x.kind = "fin" /\ ~FLess(F098, [x EXCEPT !.neg = FALSE])

\* C17: the last step of render_mashup scales the master by 0.98/peak when
\* the peak absolute sample value is greater than 0, so that no output sample
\* has magnitude greater than 0.98, and returns the buffer unchanged when the
\* peak is 0.
C17_NormalizedPeakAtMost098 ==
    fn.pc = "returned"
    => IF AllSilent(fn.master) THEN fn.out = fn.master
       ELSE /\ Len(fn.out) = Len(fn.master)
            /\ \A i \in 1..Len(fn.out) : WithinPeakTarget(fn.out[i])

\* C18: when the master is empty (the first section of the timeline),
\* appending a section yields exactly that section's buffer; no crossfade is
\* applied and no sample of it is changed or dropped.
C18_FirstSectionIsTakenAsIs ==
    [][(/\ rn.pc = "sections" /\ rn.master.none
        /\ rn'.pc = "sections" /\ rn'.sec = rn.sec + 1)
       => /\ rn'.master = MixLayers(rn.plan[rn.sec].layers, rn.prepped, NoMix).mix
          /\ rn'.joined # "xfade"]_vars

\* C18 witness: the first section, of two layers, has been appended to the
\* empty master and the master is that section's buffer.
C18_Witness ==
    /\ rn.pc = "sections" /\ rn.sec = 2 /\ rn.prev.none
    /\ Len(rn.plan[1].layers) = 2
    /\ ~rn.master.none /\ rn.master = rn.mix /\ BufLen(rn.master.buf) > 0

\* The buffer the kept slices make when each is joined to the ones before
\* it by one crossfade (_xfade), in order.
RECURSIVE JoinAll(_, _, _, _)
JoinAll(out, slices, j, sr) ==
    IF j > Len(slices) THEN Ok(out)
    ELSE LET x == xfade(out, slices[j].buf, sr, XfadeMs)
         IN IF x.ok THEN JoinAll(x.buf, slices, j + 1, sr) ELSE x

\* C21: the kept slices are joined in beat order and each contributes to the
\* output exactly once: the output is slice_0 joined to slice_1 ... joined to
\* slice_k-1 with one crossfade per adjacent pair, nothing duplicated or
\* omitted, for any number k >= 1 of kept slices.
C21_SlicesJoinedOnceInOrder ==
    (al.pc = "returned" /\ Len(al.slices) >= 1)
    => LET joined == JoinAll(al.slices[1].buf, al.slices, 2, al.sr)
       IN joined.ok /\ al.out = joined.buf

\* C22: a source slice shorter than 32 samples is dropped and processing
\* continues: dropping slices never makes the operation fail, whichever
\* slices are dropped (the first, the last, or all of them).
C22_DroppedSlicesNeverFail ==
    (/\ al.pc \in {"returned", "raised"}
     /\ BeatsAsserted(al.src_beats, al.tgt_beats)
     /\ Len(al.kept) < NumIntervals(al.src_beats, al.tgt_beats))
    => al.pc = "returned"

\* C23: every kept slice, after stretching and pad/truncate, has exactly
\* tgt_len = int((tgt[i+1] - tgt[i]) * sr) samples whatever length the
\* stretch returned: a longer result is cut at the end, a shorter one is
\* followed by zeros.
C23_KeptSliceHasTargetLength ==
    \A j \in 1..Len(al.slices) :
        LET i == al.kept[j]
            tgt_len == ((al.tgt_beats[i + 2] - al.tgt_beats[i + 1]) * al.sr) \div 1000
            slice == al.slices[j]
            chunk == PySlice(al.y, ToSamples(al.src_beats[i + 1], al.sr),
                             ToSamples(al.src_beats[i + 2], al.sr))
            head == [kind |-> "stretch", a |-> chunk, off |-> 0,
                     len |-> Min(slice.got, tgt_len)]
        IN /\ BufLen(slice.buf) = tgt_len
           /\ slice.buf = IF slice.got >= tgt_len THEN <<head>>
                          ELSE <<head, [kind |-> "zero", off |-> 0,
                                        len |-> tgt_len - slice.got]>>

\* C23 witness: the call has returned after the stretch gave one sample too
\* many for one kept slice and one too few for another.
C23_Witness ==
    /\ al.pc = "returned"
    /\ \E j, k \in 1..Len(al.slices) :
         /\ al.slices[j].got = BufLen(al.slices[j].buf) + 1
         /\ al.slices[k].got = BufLen(al.slices[k].buf) - 1

\* Every stem of every track has been prepared.
AllPrepared ==
    \A t \in 1..Len(rn.tracks), st \in {"vocals", "drums", "bass", "other"} :
        <<rn.tracks[t].id, st>> \in DOMAIN rn.prepped

\* A prepared stem is its wav file aligned to the reference grid and then,
\* when the role-clamped shift is not 0, pitch-shifted once by that shift.
PreparedInOrder(key) ==
    LET track == rn.tracks[key[1]]
        aligned == stretch_to_grid_piecewise(Wav(key, track.wav_len), track.sr, track.beats,
                                             rn.tracks[RefTrack(rn.tracks)].beats, rn.dev)
        limit == IF key[2] = "vocals" THEN 3 ELSE 6
        planned == rn.shifts[key[1]]
        clamped == IF planned > limit THEN limit
                   ELSE IF planned < -limit THEN -limit ELSE planned
    IN /\ aligned.ok
       /\ rn.prepped[key] =
            IF clamped = 0 THEN aligned.buf
            ELSE <<[kind |-> "pitch", a |-> aligned.buf, semitones |-> clamped,
                    off |-> 0, len |-> BufLen(aligned.buf)]>>

\* C24: in render_mashup every stem of every track is first time-aligned to
\* the reference beat grid and then pitch-shifted at most once with the
\* role-clamped shift (not at all when it is 0); all stems of all tracks are
\* prepared before the first section is mixed; section mixing leaves the
\* prepared stems as they are and takes the sections one after another in
\* timeline order.
C24_PrepareThenMixInOrder ==
    /\ [](/\ \A key \in DOMAIN rn.prepped : PreparedInOrder(key)
          /\ (rn.pc \in {"sections", "returned"} \/ rn.sec > 1) => AllPrepared
          /\ \A i \in 1..Len(rn.appended) :
                \A j \in 1..(i - 1) : rn.appended[j] < rn.appended[i])
    /\ [][/\ rn'.prepped # rn.prepped
             => (rn.pc = "prep" /\ rn.sec = 1 /\ rn.master.none)
          /\ rn'.sec # rn.sec
             => (rn.pc = "sections" /\ rn'.sec = rn.sec + 1 /\ rn'.prepped = rn.prepped)]_vars

\* C24 witness: two sections have been mixed from eight prepared stems, of
\* which one was pitch-shifted and one was not.
C24_Witness ==
    /\ rn.pc = "sections" /\ rn.sec = 3 /\ rn.appended = <<1, 2>>
    /\ Len(rn.tracks) = 2 /\ AllPrepared
    /\ \E k1, k2 \in DOMAIN rn.prepped :
         /\ rn.prepped[k1][1].kind = "pitch"
         /\ rn.prepped[k2][1].kind # "pitch"

\* The bars of a section's crossfade as stated: 2 for every style other
\* than clean_cross; for clean_cross, also when no transition is given, the
\* section's xfade_bars, 2 when it has none.
StatedBars(sec) ==
    IF sec.has_transition /\ sec.transition # "clean_cross" THEN 2
    ELSE IF sec.has_xfade_bars THEN sec.xfade_bars
    ELSE 2

\* C25: for every section after the first, the crossfade window passed to
\* s_curve_xfade is int((60 / target_bpm) * 4 * bars * sr) samples, bars
\* being exactly 2 for every transition style other than clean_cross
\* (xfade_bars ignored) and the section's xfade_bars, default 2, for
\* clean_cross, which is also the default style.
C25_WindowFollowsStyle ==
    (rn.joined = "xfade" /\ rn.pc = "sections")
    => rn.n = (60 * 4 * StatedBars(rn.plan[rn.sec - 1]) * rn.sr) \div rn.target_bpm

\* C25 witness: a section with transition echo_out and xfade_bars 1 has been
\* joined with a window of 2 bars.
C25_Witness ==
    /\ rn.joined = "xfade" /\ rn.pc = "sections"
    /\ rn.plan[rn.sec - 1].has_transition /\ rn.plan[rn.sec - 1].transition = "echo_out"
    /\ rn.plan[rn.sec - 1].has_xfade_bars /\ rn.plan[rn.sec - 1].xfade_bars = 1
    /\ rn.n = (60 * 4 * 2 * rn.sr) \div rn.target_bpm

\* The major key of the same pitch class.
MajorOf(k) == IF k[Len(k)] = "m" THEN SubSeq(k, 1, Len(k) - 1) ELSE k

\* The minor key of the same pitch class.
MinorOf(k) == Append(MajorOf(k), "m")

\* C26: semitone_distance depends only on the pitch classes of its
\* arguments: changing the mode of src, of dst or of both never changes the
\* result; e.g. semitone_distance("Am", "C") = semitone_distance("A", "C")
\* = semitone_distance("A", "Cm").
C26_DistanceIgnoresMode ==
    fn.pc \in {"back", "done"}
    => /\ \A a \in {MajorOf(fn.src), MinorOf(fn.src)}, b \in {MajorOf(fn.dst), MinorOf(fn.dst)} :
            semitone_distance(a, b) = fn.out
       /\ (fn.src = KeyAm /\ fn.dst = KeyC)
          => /\ fn.out = semitone_distance(<<"A">>, KeyC)
             /\ fn.out = semitone_distance(<<"A">>, <<"C", "m">>)

\* C26 witness: semitone_distance("Am", "C") has returned 3.
C26_Witness ==
    fn.pc = "back" /\ fn.src = KeyAm /\ fn.dst = KeyC /\ fn.out = 3

\* C27: semitone_distance never returns a value outside [-5, 6], so the
\* music limit 6 never changes a planned shift: for every track and every
\* stem other than vocals the applied shift equals the planned shift, and for
\* vocals the applied shift differs from the planned shift exactly when the
\* planned shift's magnitude exceeds 3.
C27_MusicLimitNeverClamps ==
    \A key \in DOMAIN rn.prepped :
        LET planned == rn.shifts[key[1]]
            applied == AppliedShift(rn.prepped[key])
        IN /\ planned \in (-5)..6
           /\ key[2] # "vocals" => applied = planned
           /\ key[2] = "vocals" => ((applied # planned) <=> (planned > 3 \/ planned < -3))

\* C27 witness: a track's planned shift is -5; its vocals were shifted by -3
\* and its bass and other stems by -5.
C27_Witness ==
    \E t \in 1..Len(rn.tracks) :
        /\ {<<t, "vocals">>, <<t, "bass">>, <<t, "other">>} \subseteq DOMAIN rn.prepped
        /\ rn.shifts[t] = -5
        /\ AppliedShift(rn.prepped[<<t, "vocals">>]) = -3
        /\ AppliedShift(rn.prepped[<<t, "bass">>]) = -5
        /\ AppliedShift(rn.prepped[<<t, "other">>]) = -5

\* C29: every run of run_mashup_process first sets the job's status to
\* 'processing' and ends with the job in exactly one terminal status,
\* 'complete' or 'failed'; 'complete' is written only after the upload, the
\* status never goes from one terminal status to the other, and a job in
\* status 'failed' has no uploaded result file.  A run is the thread's
\* (jb.th is not "none"); it has ended when the function has returned or
\* died.
C29_ProcessingThenOneTerminalStatus ==
    /\ [](jb.th # "none"
            => /\ jb.th \in {"returned", "died"} => jb.status \in {"complete", "failed"}
               /\ jb.status = "complete" => jb.uploads > 0
               /\ jb.status = "failed" => jb.uploads = 0)
    /\ [][(jb.th # "none" /\ jb'.status # jb.status)
             => \/ jb.status = "starting" /\ jb'.status = "processing"
                \/ jb.status = "processing" /\ jb'.status \in {"complete", "failed"}]_vars

\* C28: with two invocations of process_job_queue running concurrently, a
\* queued job is selected and processed by at most one of them: no job is
\* marked 'processing' twice, rendered twice or uploaded twice.
C28_JobProcessedByOneInvocation ==
    /\ \A v \in Invocations, w \in Invocations :
          (v # w /\ pq.inv[v].job_id # "none") => pq.inv[v].job_id # pq.inv[w].job_id
    /\ \A j \in JobIds :
          /\ pq.rows[j].marked <= 1
          /\ pq.rows[j].rendered <= 1
          /\ pq.rows[j].uploaded <= 1

StreamedProgress(e) == e.kind \in {"progress", "complete"}

TerminalEvent(e) == e.kind \in {"complete", "error"}

\* The progress values of the stream are non-decreasing and at most 100; a
\* terminal event is the last event, and 'Complete!' has progress 100 and
\* follows the upload.
StreamWellFormed ==
    LET ev == sm.events
    IN /\ \A a \in 1..Len(ev) :
             StreamedProgress(ev[a])
             => /\ ev[a].progress <= 100
                /\ \A b \in 1..(a - 1) :
                      StreamedProgress(ev[b]) => ev[b].progress <= ev[a].progress
       /\ \A a \in 1..Len(ev) :
             TerminalEvent(ev[a])
             => (a = Len(ev) /\ sm.pc \in {"yield_complete", "yield_error", "exhausted", "closed"})
       /\ \A a \in 1..Len(ev) :
             ev[a].kind = "complete" => (ev[a].progress = 100 /\ sm.mastered /\ sm.uploaded)

\* The stream has ended: the generator has returned or its consumer has
\* closed it.
StreamEnded == sm.pc \in {"exhausted", "closed"}

\* The consumer closed the generator before a terminal event was yielded.
ClosedEarly == sm.pc = "closed" /\ sm.closed_at \notin {"yield_complete", "yield_error"}

\* C30 as claimed: the progress values of the stream are non-decreasing and
\* at most 100, and every stream that has ended ends with exactly one
\* terminal event, 'Complete!' (progress 100, only after the upload
\* succeeded) or an error event, which no event follows.
C30_EveryStreamEndsWithTerminal ==
    /\ StreamWellFormed
    /\ StreamEnded => (sm.events # <<>> /\ TerminalEvent(sm.events[Len(sm.events)]))

\* C30 as amended: the progress values of the stream are non-decreasing and
\* at most 100; a stream that has ended, unless its consumer closed it
\* before a terminal event was yielded, ends with exactly one terminal
\* event, 'Complete!' (progress 100, only after the upload succeeded) or an
\* error event, which no event follows; a stream closed before that has no
\* terminal event.
C30_ProgressMonotoneOneTerminal ==
    /\ StreamWellFormed
    /\ (StreamEnded /\ ~ClosedEarly)
         => (sm.events # <<>> /\ TerminalEvent(sm.events[Len(sm.events)]))
    /\ ClosedEarly => \A a \in 1..Len(sm.events) : ~TerminalEvent(sm.events[a])

\* C30 witness: a stream for two songs and three sections has been read to
\* the generator's return and ended with 'Complete!' after the progress
\* values 14, 28, 42, 57, 71, 85, 100.
C30_Witness ==
    /\ sm.pc = "exhausted" /\ sm.n_songs = 2 /\ sm.n_sections = 3
    /\ Len(sm.events) = 8
    /\ [a \in 1..7 |-> sm.events[a].progress] = <<14, 28, 42, 57, 71, 85, 100>>
    /\ sm.events[8].kind = "complete"

====
